---- MODULE Spec2Model ----
(***************************************************************************)
(* Admission / caching control plane of r-net-backend:                     *)
(*   middleware/rate_limiter.py  RateLimiter (token bucket per client and  *)
(*                               endpoint) and its use by the middleware   *)
(*   middleware/cache.py         LRUCache (OrderedDict with TTL)           *)
(*                                                                         *)
(* Time is counted in ticks of 1/TicksPerSec second.  Token counts are     *)
(* Python floats in the source; here they are exact rationals, stored as   *)
(* integers in units of 1/Scale token, Scale == 60 * TicksPerSec, so that  *)
(* a bucket refilling at rate_per_minute/60 tokens per second gains        *)
(* exactly rate_per_minute units per tick.                                 *)
(***************************************************************************)
EXTENDS Integers, Sequences, FiniteSets, TLC

VARIABLES
    now,        \* time.time(), in ticks
    buckets,    \* RateLimiter.buckets: client_id -> (endpoint -> [tokens, last_update])
    track,      \* per live bucket: creation time, calls since creation, the latest
                \* call's outcome and what preceded it
    swept,      \* the cleanup_old_entries call that has just run, if one has
    steps,      \* number of operations performed so far
    cache,      \* LRUCache.cache: the OrderedDict, oldest first, as [key, value, timestamp]
    max_size,   \* LRUCache.max_size
    ttl_seconds,\* LRUCache.ttl_seconds
    hits,       \* LRUCache.hits
    misses,     \* LRUCache.misses
    evictions,  \* LRUCache.evictions
    ret,        \* the latest cache operation and what it returned
    recency,    \* the cached keys in order of last use (set or get hit), oldest first
    fp,         \* the latest _generate_key call: its arguments and its result
    threads,    \* calls in progress on concurrent threads: thread -> frame of locals
    request_count,      \* MetricsCollector.request_count: endpoint -> int
    error_count,        \* MetricsCollector.error_count: endpoint -> int
    response_times,     \* MetricsCollector.response_times: endpoint -> deque of durations
    openai_calls,       \* MetricsCollector.openai_calls
    openai_errors,      \* MetricsCollector.openai_errors
    openai_tokens_used, \* MetricsCollector.openai_tokens_used
    openai_cost,        \* MetricsCollector.openai_cost, in cents
    cache_hits,         \* MetricsCollector.cache_hits
    cache_misses,       \* MetricsCollector.cache_misses
    start_time,         \* MetricsCollector.start_time
    window_size,        \* the maxlen of the response_times deques
    report,     \* the latest get_metrics / get_health_status result
    arrived,    \* every request recorded so far (duration and status), per endpoint,
                \* in arrival order
    admissions, \* per bucket: the times of the calls admitted so far
    twin,       \* a RateLimiter given the same calls and never swept, with the
                \* latest call's outcome on either
    trace       \* what the latest request through the application did, in order

limiterVars == <<buckets, track, swept>>
cacheVars == <<cache, max_size, ttl_seconds, hits, misses, evictions, ret, recency>>
metricsVars == <<request_count, error_count, response_times, openai_calls, openai_errors,
                 openai_tokens_used, openai_cost, cache_hits, cache_misses, start_time,
                 window_size, report>>
ghostVars == <<arrived, admissions, twin, trace>>
vars == <<now, steps, limiterVars, cacheVars, fp, threads, metricsVars, ghostVars>>

\* ------------------------------------------------------------------ bounds
TicksPerSec == 2
MaxSeconds == 13
MaxSteps == 6
MaxOver == 4
MaxAge == 2
MaxSize == 3
MaxTTL == 1
MaxCacheSteps == 5
MaxDescLen == 2
MaxThreadOps == 4
MaxWindow == 2
MaxMetricsSteps == 2
MaxRecords == 4
MaxSamples == 21
MaxCalls == 6
MaxHours == 2
MaxRequests == 3

Scale == 60 * TicksPerSec
MaxTime == MaxSeconds * TicksPerSec

Clients == {"c1", "c2"}
Routes == {"/generate", "/health", "/other"}

\* ------------------------------------------------------- RateLimiter config
\* self.limits / self.burst with the "default" fallback of _get_limit
Limit(endpoint) ==
    CASE endpoint = "/generate" -> 5
      [] endpoint = "/health" -> 60
      [] OTHER -> 30

Burst(endpoint) ==
    CASE endpoint = "/generate" -> 2
      [] endpoint = "/health" -> 10
      [] OTHER -> 5

Min(a, b) == IF a <= b THEN a ELSE b

\* int(x) of a non-negative quotient num/den: truncation
IntTrunc(num, den) == num \div den

HasBucket(b, c, e) == c \in DOMAIN b /\ e \in DOMAIN b[c]

\* self.buckets[client_id][endpoint] = value  (defaultdict(dict) creates the client)
PutBucket(b, c, e, value) ==
    LET inner == IF c \in DOMAIN b THEN b[c] ELSE <<>>
        inner2 == [x \in (DOMAIN inner) \cup {e} |-> IF x = e THEN value ELSE inner[x]]
    IN  [x \in (DOMAIN b) \cup {c} |-> IF x = c THEN inner2 ELSE b[x]]

\* the refill without its cap at max_burst
RefillUncapped(tokens, time_passed, endpoint) ==
    tokens + time_passed * Limit(endpoint)

\* the refill with refill_rate = rate_per_minute // 60, a whole number of tokens per second
RefillWholeRate(tokens, time_passed, endpoint) ==
    Min(Burst(endpoint) * Scale, tokens + time_passed * 60 * (Limit(endpoint) \div 60))

\* tokens = min(max_burst, tokens + time_passed * refill_rate), in units of 1/Scale
Refill(tokens, time_passed, endpoint) ==
    Min(Burst(endpoint) * Scale, tokens + time_passed * Limit(endpoint))

\* check_rate_limit admitting only above one token (> for >=)
CheckRateLimitStrict(b, c, e, t) ==
    LET start == IF HasBucket(b, c, e) THEN b[c][e]
                 ELSE [tokens |-> Burst(e) * Scale, last_update |-> t]
        tokens == Refill(start.tokens, t - start.last_update, e)
    IN  IF tokens > Scale
        THEN [buckets |-> PutBucket(b, c, e, [tokens |-> tokens - Scale, last_update |-> t]),
              allowed |-> TRUE]
        ELSE [buckets |-> PutBucket(b, c, e, [tokens |-> tokens, last_update |-> t]),
              allowed |-> FALSE]

\* check_rate_limit whose refusal keeps the bucket's old last_update
CheckRateLimitStaleClock(b, c, e, t) ==
    LET start == IF HasBucket(b, c, e) THEN b[c][e]
                 ELSE [tokens |-> Burst(e) * Scale, last_update |-> t]
        tokens == Refill(start.tokens, t - start.last_update, e)
    IN  IF tokens >= Scale
        THEN [buckets |-> PutBucket(b, c, e, [tokens |-> tokens - Scale, last_update |-> t]),
              allowed |-> TRUE]
        ELSE [buckets |-> PutBucket(b, c, e, [tokens |-> tokens,
                                              last_update |-> start.last_update]),
              allowed |-> FALSE]

\* check_rate_limit admitting without consuming the token
CheckRateLimitNoCharge(b, c, e, t) ==
    LET start == IF HasBucket(b, c, e) THEN b[c][e]
                 ELSE [tokens |-> Burst(e) * Scale, last_update |-> t]
        tokens == Refill(start.tokens, t - start.last_update, e)
    IN  IF tokens >= Scale
        THEN [buckets |-> PutBucket(b, c, e, [tokens |-> tokens, last_update |-> t]),
              allowed |-> TRUE]
        ELSE [buckets |-> PutBucket(b, c, e, [tokens |-> tokens, last_update |-> t]),
              allowed |-> FALSE]

\* check_rate_limit: the new buckets and the returned bool
CheckRateLimit(b, c, e, t) ==
    LET start == IF HasBucket(b, c, e) THEN b[c][e]
                 ELSE [tokens |-> Burst(e) * Scale, last_update |-> t]
        tokens == Refill(start.tokens, t - start.last_update, e)
    IN  IF tokens >= Scale
        THEN [buckets |-> PutBucket(b, c, e, [tokens |-> tokens - Scale, last_update |-> t]),
              allowed |-> TRUE]
        ELSE [buckets |-> PutBucket(b, c, e, [tokens |-> tokens, last_update |-> t]),
              allowed |-> FALSE]

\* get_retry_after without the final + 1
GetRetryAfterNoMargin(b, c, e) ==
    IF HasBucket(b, c, e) /\ b[c][e].tokens < Scale
    THEN IntTrunc(Scale - b[c][e].tokens, TicksPerSec * Limit(e))
    ELSE 60

\* get_retry_after dividing the tokens held, not the tokens missing
GetRetryAfterOfHeld(b, c, e) ==
    IF HasBucket(b, c, e) /\ b[c][e].tokens < Scale
    THEN IntTrunc(b[c][e].tokens, TicksPerSec * Limit(e)) + 1
    ELSE 60

\* get_retry_after dividing by the rate per minute as if it were per second
GetRetryAfterPerMinute(b, c, e) ==
    IF HasBucket(b, c, e) /\ b[c][e].tokens < Scale
    THEN IntTrunc(Scale - b[c][e].tokens, TicksPerSec * Limit(e) * 60) + 1
    ELSE 60

\* get_retry_after, in seconds:
\* (1.0 - tokens) / refill_rate = (Scale - tokens) / (TicksPerSec * rate_per_minute)
GetRetryAfter(b, c, e) ==
    IF HasBucket(b, c, e) /\ b[c][e].tokens < Scale
    THEN IntTrunc(Scale - b[c][e].tokens, TicksPerSec * Limit(e)) + 1
    ELSE 60

\* cleanup_old_entries removing at max_age exactly too (>= for >)
CleanupOldEntriesEager(b, t, max_age) ==
    LET keep(c) == {e \in DOMAIN b[c] : ~(t - b[c][e].last_update >= max_age * TicksPerSec)}
        left == {c \in DOMAIN b : keep(c) # {}}
    IN  [c \in left |-> [e \in keep(c) |-> b[c][e]]]

\* a cleanup that removes every bucket whatever its age
CleanupOldEntriesAll(b, t, max_age) == <<>>

\* cleanup_old_entries(max_age_seconds) at time t
CleanupOldEntries(b, t, max_age) ==
    LET keep(c) == {e \in DOMAIN b[c] : ~(t - b[c][e].last_update > max_age * TicksPerSec)}
        left == {c \in DOMAIN b : keep(c) # {}}
    IN  [c \in left |-> [e \in keep(c) |-> b[c][e]]]

\* max_age_seconds as the middleware calls cleanup_old_entries(): the default
DefaultMaxAge == 3600

Keys(b) == {k \in Clients \X Routes : HasBucket(b, k[1], k[2])}
Bucket(b, k) == b[k[1]][k[2]]
NoCall == [allowed |-> TRUE, retry |-> 0, gap |-> -1]
NoSweep == [max_age |-> -1, removed |-> 0]

\* ------------------------------------------------------------------ LRUCache
\* the module-level instance: cache = LRUCache(max_size=100, ttl_seconds=3600)
GlobalMaxSize == 100
GlobalTTL == 3600

None == "None"
Values == {"v1", "v2"}

\* Text is a sequence of characters.  A tech_stack dict is the sequence of its
\* items <<name, value>> in insertion order; a name is one symbol (the field
\* names are fixed identifiers), a value is text.
TechNames == <<"backend", "database", "frontend">>   \* in sort order
StackA == <<<<"frontend", <<"R">>>>, <<"backend", <<"F">>>>>>
StackAPermuted == <<<<"backend", <<"F">>>>, <<"frontend", <<"R">>>>>>
StackB == <<<<"frontend", <<"V">>>>, <<"backend", <<"F">>>>>>

Requests ==
    { [image_data |-> "img1", description |-> <<"a">>, tech_stack |-> StackA],
      [image_data |-> "img1", description |-> <<"a">>, tech_stack |-> StackAPermuted],
      [image_data |-> "img2", description |-> <<"a">>, tech_stack |-> StackA],
      [image_data |-> "img1", description |-> <<"b">>, tech_stack |-> StackA],
      [image_data |-> "img1", description |-> <<"a">>, tech_stack |-> StackB] }

\* the arguments _generate_key is checked on: descriptions are any text of
\* up to MaxDescLen characters that may hold the separator;
\* values include one that spells the JSON text between two items
Images == {"img1", "img2"}
Alphabet == {"a", ":"}
Texts(n) == UNION {[1..k -> Alphabet] : k \in 0..n}
TechValues ==
    { <<"R">>, <<"V">>,
      <<"R", "\"", ",", " ", "\"", "frontend", "\"", ":", " ", "\"", "V">> }
KeyNames == {"backend", "frontend"}
Stacks ==
    {<<>>}
    \cup {<<<<n, v>>>> : n \in KeyNames, v \in TechValues}
    \cup {<<<<n[1], v[1]>>, <<n[2], v[2]>>>> :
            n \in {m \in KeyNames \X KeyNames : m[1] # m[2]},
            v \in TechValues \X TechValues}
KeyRequests == [image_data : Images, description : Texts(MaxDescLen), tech_stack : Stacks]

RECURSIVE Flatten(_)
Flatten(ss) == IF ss = <<>> THEN <<>> ELSE Head(ss) \o Flatten(Tail(ss))

\* a JSON string literal: json.dumps escapes quotes and backslashes
Escape(text) ==
    Flatten([i \in DOMAIN text |->
               IF text[i] \in {"\"", "\\"} THEN <<"\\", text[i]>> ELSE <<text[i]>>])

Quote(text) == <<"\"">> \o Escape(text) \o <<"\"">>

\* the text json.dumps writes for a dict whose items are given in order
Dumps(items) ==
    <<"{">>
    \o Flatten([i \in DOMAIN items |->
                  (IF i = 1 THEN <<>> ELSE <<",", " ">>)
                  \o Quote(<<items[i][1]>>) \o <<":", " ">> \o Quote(items[i][2])])
    \o <<"}">>

\* tech_stack dumped in insertion order (sort_keys left out)
SortKeysAsGiven(tech_stack) == tech_stack

\* json.dumps(tech_stack, sort_keys=True): the items ordered by key
SortKeys(tech_stack) ==
    LET present(nm) == \E i \in DOMAIN tech_stack : tech_stack[i][1] = nm
        item(nm) == CHOOSE p \in {tech_stack[i] : i \in DOMAIN tech_stack} : p[1] = nm
        names == SelectSeq(TechNames, present)
    IN  [i \in DOMAIN names |-> item(names[i])]

\* _generate_key: the SHA-256 digests are taken to be injective, so image_hash
\* (16 hex characters) is one symbol named after the image and the key is
\* key_data, the text that is hashed:
\*   f"{image_hash}:{description}:{tech_str}"
GenerateKey(req) ==
    <<req.image_data, ":">> \o req.description \o <<":">>
    \o Dumps(SortKeys(req.tech_stack))

CacheKeys(c) == {c[i].key : i \in DOMAIN c}
IndexOf(c, key) == CHOOSE i \in DOMAIN c : c[i].key = key
Without(c, key) == SelectSeq(c, LAMBDA x : x.key # key)

\* expiry by the clock alone, not by the age of the entry
ExpiredByClock(x, t, ttl) == t > ttl * TicksPerSec

\* an entry expires as soon as its age reaches the TTL (>= for >)
ExpiredAtTTL(x, t, ttl) == t - x.timestamp >= ttl * TicksPerSec

\* time.time() - timestamp > self.ttl_seconds
Expired(x, t, ttl) == t - x.timestamp > ttl * TicksPerSec

\* a key already held keeps its old item (setdefault for assignment)
AssignIfAbsent(c, key, item) == IF key \in CacheKeys(c) THEN c ELSE Append(c, item)

\* self.cache[key] = item: an OrderedDict keeps the place of a key it already holds
Assign(c, key, item) ==
    IF key \in CacheKeys(c)
    THEN [c EXCEPT ![IndexOf(c, key)] = item]
    ELSE Append(c, item)

\* self.cache.move_to_end(key)
MoveToEnd(c, key) == Append(Without(c, key), c[IndexOf(c, key)])

\* the order of last use after key was used and only the keys of c remain
Used(r, c, key) == Append(SelectSeq(r, LAMBDA k : k \in CacheKeys(c) /\ k # key), key)

\* the order of last use once only the keys of c remain
Remaining(r, c) == SelectSeq(r, LAMBDA k : k \in CacheKeys(c))

\* what a cache operation returned: the operation, its key, the returned value,
\* the value passed in and the return statement taken
Returned(op, key, value, arg, branch) ==
    [op |-> op, key |-> key, value |-> value, arg |-> arg, branch |-> branch]

\* LRUCache.__init__
CacheNew(size, ttl) ==
    /\ cache = <<>>
    /\ max_size = size
    /\ ttl_seconds = ttl
    /\ hits = 0
    /\ misses = 0
    /\ evictions = 0
    /\ ret = Returned("init", None, None, None, None)
    /\ recency = <<>>

\* LRUCache.get
Get(req) ==
    LET key == GenerateKey(req) IN
    /\ IF key \in CacheKeys(cache)
       THEN LET x == cache[IndexOf(cache, key)] IN
            IF Expired(x, now, ttl_seconds)
            THEN /\ cache' = Without(cache, key)
                 /\ misses' = misses + 1
                 /\ ret' = Returned("get", key, None, None, "expired")
                 /\ recency' = Remaining(recency, cache')
                 /\ UNCHANGED hits
            ELSE /\ cache' = MoveToEnd(cache, key)
                 /\ hits' = hits + 1
                 /\ ret' = Returned("get", key, x.value, None, "hit")
                 /\ recency' = Used(recency, cache', key)
                 /\ UNCHANGED misses
       ELSE /\ misses' = misses + 1
            /\ ret' = Returned("get", key, None, None, "absent")
            /\ UNCHANGED <<cache, hits, recency>>
    /\ steps' = steps + 1
    /\ UNCHANGED <<now, limiterVars, max_size, ttl_seconds, evictions, fp, threads, metricsVars, ghostVars>>

\* eviction only above capacity (> for >=)
EvictOldestLate(c, size) == IF Len(c) > size THEN Tail(c) ELSE c

\* the first half of LRUCache.set: "Remove oldest if at capacity"
EvictOldest(c, size) == IF Len(c) >= size THEN Tail(c) ELSE c

\* LRUCache.set
Set(req, value) ==
    LET key == GenerateKey(req)
        kept == EvictOldest(cache, max_size)
    IN
    /\ cache' = Assign(kept, key, [key |-> key, value |-> value, timestamp |-> now])
    /\ evictions' = IF kept # cache THEN evictions + 1 ELSE evictions
    /\ ret' = Returned("set", key, None, value, None)
    /\ recency' = Used(recency, cache', key)
    /\ steps' = steps + 1
    /\ UNCHANGED <<now, limiterVars, max_size, ttl_seconds, hits, misses, fp, threads, metricsVars, ghostVars>>

\* LRUCache.clear
Clear ==
    /\ cache' = <<>>
    /\ hits' = 0
    /\ misses' = 0
    /\ evictions' = 0
    /\ ret' = Returned("clear", None, None, None, None)
    /\ recency' = <<>>
    /\ steps' = steps + 1
    /\ UNCHANGED <<now, limiterVars, max_size, ttl_seconds, fp, threads, metricsVars, ghostVars>>

\* LRUCache.cleanup_expired
CleanupExpired ==
    LET expired_keys == {x.key : x \in {cache[i] : i \in {j \in DOMAIN cache :
                                         Expired(cache[j], now, ttl_seconds)}}}
    IN
    /\ cache' = SelectSeq(cache, LAMBDA x : x.key \notin expired_keys)
    /\ ret' = Returned("cleanup_expired", None, Cardinality(expired_keys), None, None)
    /\ recency' = Remaining(recency, cache')
    /\ steps' = steps + 1
    /\ UNCHANGED <<now, limiterVars, max_size, ttl_seconds, hits, misses, evictions,
                   fp, threads, metricsVars, ghostVars>>

\* ------------------------------------------------------ MetricsCollector
\* Durations are whole milliseconds, costs whole cents.  A quotient the source
\* holds as a float is the exact fraction [num, den]; round(x, 2) gives whole
\* hundredths.
\* the module-level instance: metrics = MetricsCollector(), window_size = 1000
GlobalWindowSize == 1000

Methods == {"GET", "POST"}
Paths == {"/generate", "/health"}

\* f"{method} {path}"
Endpoint(method, path) == <<method, path>>

\* d[key] of a defaultdict(int) that is only read
Count(d, key) == IF key \in DOMAIN d THEN d[key] ELSE 0

\* d[key] += 1
Incr(d, key) ==
    [x \in (DOMAIN d) \cup {key} |-> IF x = key THEN Count(d, key) + 1 ELSE d[x]]

RECURSIVE SumOver(_, _)
SumOver(d, keys) ==
    IF keys = {} THEN 0
    ELSE LET k == CHOOSE x \in keys : TRUE IN d[k] + SumOver(d, keys \ {k})

\* sum(d.values())
Sum(d) == SumOver(d, DOMAIN d)

RECURSIVE SumSeq(_)
SumSeq(q) == IF q = <<>> THEN 0 ELSE Head(q) + SumSeq(Tail(q))

\* an append that, at capacity, refuses the new value instead of dropping the oldest
AppendWindowKeepOldest(d, key, duration, size) ==
    LET w == IF key \in DOMAIN d THEN d[key] ELSE <<>>
        w2 == IF Len(w) >= size THEN w ELSE Append(w, duration)
    IN  [x \in (DOMAIN d) \cup {key} |-> IF x = key THEN w2 ELSE d[x]]

\* self.response_times[endpoint].append(duration) on a deque(maxlen=size)
AppendWindow(d, key, duration, size) ==
    LET w == IF key \in DOMAIN d THEN d[key] ELSE <<>>
        w2 == IF Len(w) >= size THEN Append(Tail(w), duration) ELSE Append(w, duration)
    IN  [x \in (DOMAIN d) \cup {key} |-> IF x = key THEN w2 ELSE d[x]]

Ratio(num, den) == [num |-> num, den |-> den]

\* round(x) of a non-negative fraction: to the nearest whole number, a tie to
\* the even one
RoundHalfEven(num, den) ==
    LET q == num \div den
        r == num % den
    IN  IF 2 * r < den THEN q
        ELSE IF 2 * r > den THEN q + 1
        ELSE IF q % 2 = 0 THEN q ELSE q + 1

\* round(x, 2), in hundredths
Round2(x) == RoundHalfEven(x.num * 100, x.den)

\* the index of the largest element
P95IndexLast(n) == n - 1

\* int(len(times_sorted) * 0.95); the float product is exact for the lengths
\* the deque can hold
P95Index(n) == (95 * n) \div 100

\* MetricsCollector.__init__
MetricsNew(size) ==
    /\ request_count = <<>>
    /\ error_count = <<>>
    /\ response_times = <<>>
    /\ openai_calls = 0
    /\ openai_errors = 0
    /\ openai_tokens_used = 0
    /\ openai_cost = 0
    /\ cache_hits = 0
    /\ cache_misses = 0
    /\ start_time = now
    /\ window_size = size
    /\ report = [op |-> "init"]

Workers == {"t1", "t2"}
Sweeper == "sweeper"
ThreadRoutes == {"/generate"}

\* no call in progress on any thread
NoThreads == [t \in Workers \cup {Sweeper} |-> [op |-> None, pc |-> "idle"]]

\* get_metrics enters: its locals, nothing computed yet
MetricsLocals ==
    [op |-> "get_metrics", pc |-> "75", uptime |-> 0,
     avg_response_times |-> <<>>, p95_response_times |-> <<>>,
     requests_per_second |-> Ratio(0, 1), errors_per_second |-> Ratio(0, 1),
     total_cache_requests |-> 0, cache_hit_rate |-> Ratio(0, 1),
     total_requests |-> 0, total_errors |-> 0, error_rate |-> Ratio(0, 1),
     for_health |-> FALSE, metrics |-> [op |-> "init"]]

\* line 75: uptime = time.time() - self.start_time
Locals75(f) == [f EXCEPT !.uptime = now - start_time, !.pc = "81"]

\* lines 81-88: the mean and the 95th percentile of every non-empty window
Locals81(f) ==
    LET seen == {e \in DOMAIN response_times : response_times[e] # <<>>}
        sorted(e) == SortSeq(response_times[e], LAMBDA a, b : a < b)
        n(e) == Len(response_times[e])
    IN  [f EXCEPT
          !.avg_response_times = [e \in seen |-> Ratio(SumSeq(response_times[e]), n(e))],
          !.p95_response_times =
             [e \in seen |-> IF P95Index(n(e)) < n(e)
                             THEN sorted(e)[P95Index(n(e)) + 1]
                             ELSE sorted(e)[n(e)]],
          !.pc = "91"]

\* line 91: requests_per_second = sum(self.request_count.values()) / uptime
Locals91(f) ==
    [f EXCEPT !.requests_per_second =
                 IF f.uptime > 0 THEN Ratio(Sum(request_count) * TicksPerSec, f.uptime)
                 ELSE Ratio(0, 1),
              !.pc = "92"]

\* line 92: errors_per_second = sum(self.error_count.values()) / uptime
Locals92(f) ==
    [f EXCEPT !.errors_per_second =
                 IF f.uptime > 0 THEN Ratio(Sum(error_count) * TicksPerSec, f.uptime)
                 ELSE Ratio(0, 1),
              !.pc = "95"]

\* lines 95-96: total_cache_requests and cache_hit_rate
Locals95(f) ==
    [f EXCEPT !.total_cache_requests = cache_hits + cache_misses,
              !.cache_hit_rate =
                 IF cache_hits + cache_misses > 0
                 THEN Ratio(cache_hits * 100, cache_hits + cache_misses)
                 ELSE Ratio(0, 1),
              !.pc = "99"]

\* line 99: total_requests = sum(self.request_count.values())
Locals99(f) == [f EXCEPT !.total_requests = Sum(request_count), !.pc = "100"]

\* lines 100-101: total_errors = sum(self.error_count.values()), error_rate
Locals100(f) ==
    LET total_errors == Sum(error_count) IN
    [f EXCEPT !.total_errors = total_errors,
              !.error_rate = IF f.total_requests > 0
                             THEN Ratio(total_errors * 100, f.total_requests)
                             ELSE Ratio(0, 1),
              !.pc = "103"]

\* lines 103-136: the dict returned (uptime is what uptime_formatted spells out)
Result103(f) ==
    [op |-> "get_metrics",
     system |-> [uptime_seconds |-> IntTrunc(f.uptime, TicksPerSec), uptime |-> f.uptime],
     requests |-> [total |-> f.total_requests,
                   by_endpoint |-> request_count,
                   rate_per_second |-> Round2(f.requests_per_second)],
     errors |-> [total |-> f.total_errors,
                 by_endpoint |-> error_count,
                 rate_per_second |-> Round2(f.errors_per_second),
                 error_rate_percent |-> Round2(f.error_rate)],
     performance |->
       [avg_response_time_ms |->
          [e \in DOMAIN f.avg_response_times |-> Round2(f.avg_response_times[e])],
        p95_response_time_ms |->
          [e \in DOMAIN f.p95_response_times |-> 100 * f.p95_response_times[e]]],
     openai |-> [total_calls |-> openai_calls,
                 errors |-> openai_errors,
                 tokens_used |-> openai_tokens_used,
                 estimated_cost_usd |-> openai_cost,
                 success_rate_percent |->
                   IF openai_calls > 0
                   THEN Round2(Ratio((openai_calls - openai_errors) * 100, openai_calls))
                   ELSE 0],
     cache |-> [hits |-> cache_hits,
                misses |-> cache_misses,
                hit_rate_percent |-> Round2(f.cache_hit_rate),
                total_requests |-> f.total_cache_requests]]

\* get_metrics run without interruption
GetMetricsResult ==
    Result103(Locals100(Locals99(Locals95(Locals92(Locals91(Locals81(Locals75(
        MetricsLocals))))))))

Warning(kind, about) == [kind |-> kind, about |-> about]

\* get_health_status, lines 161-193, on the dict m that get_metrics returned;
\* the rates in m are in hundredths of a percent, the times in hundredths of a ms
HealthResult(m) ==
    LET error_rate == m.errors.error_rate_percent
        openai_success_rate == m.openai.success_rate_percent
        high == error_rate > 10 * 100
        elevated == ~high /\ error_rate > 5 * 100
        low == openai_calls > 0 /\ openai_success_rate < 90 * 100
        slow == {e \in DOMAIN m.performance.avg_response_time_ms :
                   m.performance.avg_response_time_ms[e] > 5000 * 100}
    IN  [op |-> "get_health_status",
         healthy |-> ~high /\ ~low,
         warnings |-> (IF high THEN {Warning("High error rate", None)} ELSE {})
                      \cup (IF elevated THEN {Warning("Elevated error rate", None)} ELSE {})
                      \cup (IF low THEN {Warning("Low OpenAI success rate", None)} ELSE {})
                      \cup {Warning("Slow response time", e) : e \in slow},
         metrics |-> m]

\* MetricsCollector.record_request
RecordRequest(method, path, status_code, duration) ==
    LET endpoint == Endpoint(method, path) IN
    /\ request_count' = Incr(request_count, endpoint)
    /\ response_times' = AppendWindow(response_times, endpoint, duration, window_size)
    /\ error_count' = IF status_code >= 400 THEN Incr(error_count, endpoint) ELSE error_count
    /\ arrived' = [x \in (DOMAIN arrived) \cup {endpoint} |->
                     IF x = endpoint
                     THEN Append(IF x \in DOMAIN arrived THEN arrived[x] ELSE <<>>,
                                 [duration |-> duration, status_code |-> status_code])
                     ELSE arrived[x]]
    /\ steps' = steps + 1
    /\ UNCHANGED <<now, limiterVars, cacheVars, fp, threads, openai_calls, openai_errors,
                   openai_tokens_used, openai_cost, cache_hits, cache_misses, start_time,
                   window_size, admissions, twin, trace, report>>

\* a record_openai_call that counts a call only when it succeeded
RecordOpenaiCallOnSuccess(success, tokens, cost) ==
    /\ IF ~success
       THEN /\ openai_errors' = openai_errors + 1
            /\ UNCHANGED <<openai_calls, openai_tokens_used, openai_cost>>
       ELSE /\ openai_calls' = openai_calls + 1
            /\ openai_tokens_used' = openai_tokens_used + tokens
            /\ openai_cost' = openai_cost + cost
            /\ UNCHANGED openai_errors
    /\ steps' = steps + 1
    /\ UNCHANGED <<now, limiterVars, cacheVars, fp, threads, request_count, error_count,
                   response_times, cache_hits, cache_misses, start_time, window_size,
                   ghostVars, report>>

\* MetricsCollector.record_openai_call
RecordOpenaiCall(success, tokens, cost) ==
    /\ openai_calls' = openai_calls + 1
    /\ IF ~success
       THEN /\ openai_errors' = openai_errors + 1
            /\ UNCHANGED <<openai_tokens_used, openai_cost>>
       ELSE /\ openai_tokens_used' = openai_tokens_used + tokens
            /\ openai_cost' = openai_cost + cost
            /\ UNCHANGED openai_errors
    /\ steps' = steps + 1
    /\ UNCHANGED <<now, limiterVars, cacheVars, fp, threads, request_count, error_count,
                   response_times, cache_hits, cache_misses, start_time, window_size, ghostVars, report>>

\* MetricsCollector.record_cache
RecordCache(hit) ==
    /\ IF hit
       THEN cache_hits' = cache_hits + 1 /\ UNCHANGED cache_misses
       ELSE cache_misses' = cache_misses + 1 /\ UNCHANGED cache_hits
    /\ steps' = steps + 1
    /\ UNCHANGED <<now, limiterVars, cacheVars, fp, threads, request_count, error_count,
                   response_times, openai_calls, openai_errors, openai_tokens_used,
                   openai_cost, start_time, window_size, ghostVars, report>>

\* a get_metrics that starts the per-endpoint counters afresh after reading them
GetMetricsAndReset ==
    /\ report' = GetMetricsResult
    /\ request_count' = <<>>
    /\ error_count' = <<>>
    /\ steps' = steps + 1
    /\ UNCHANGED <<now, limiterVars, cacheVars, fp, threads, response_times, openai_calls,
                   openai_errors, openai_tokens_used, openai_cost, cache_hits, cache_misses,
                   start_time, window_size, ghostVars>>

\* MetricsCollector.get_metrics
GetMetrics ==
    /\ report' = GetMetricsResult
    /\ steps' = steps + 1
    /\ UNCHANGED <<now, limiterVars, cacheVars, fp, threads, request_count, error_count,
                   response_times, openai_calls, openai_errors, openai_tokens_used,
                   openai_cost, cache_hits, cache_misses, start_time, window_size, ghostVars>>

\* MetricsCollector.get_health_status
GetHealthStatus ==
    /\ report' = HealthResult(GetMetricsResult)
    /\ steps' = steps + 1
    /\ UNCHANGED <<now, limiterVars, cacheVars, fp, threads, request_count, error_count,
                   response_times, openai_calls, openai_errors, openai_tokens_used,
                   openai_cost, cache_hits, cache_misses, start_time, window_size, ghostVars>>

\* tokens and cost (in cents) passed to record_openai_call: the defaults and
\* what generate_code passes
Usages == {<<0, 0>>, <<4096, 8>>}

\* the requests recorded
Statuses == {399, 400}
Durations == {100, 6000}

\* A collector that has recorded requests requests on one endpoint, errors of
\* them with a status >= 400, each taking duration, and calls upstream calls
\* of which failures failed.
Loaded(size, requests, errors, duration, calls, failures) ==
    LET endpoint == Endpoint("POST", "/generate")
        held == IF requests < size THEN requests ELSE size
    IN
    /\ request_count = IF requests > 0 THEN [e \in {endpoint} |-> requests] ELSE <<>>
    /\ error_count = IF errors > 0 THEN [e \in {endpoint} |-> errors] ELSE <<>>
    /\ response_times = IF requests > 0 THEN [e \in {endpoint} |-> [i \in 1..held |-> duration]]
                        ELSE <<>>
    /\ openai_calls = calls
    /\ openai_errors = failures
    /\ openai_tokens_used = 4096 * (calls - failures)
    /\ openai_cost = 8 * (calls - failures)
    /\ cache_hits = 0
    /\ cache_misses = calls
    /\ start_time = 0
    /\ window_size = size
    /\ report = [op |-> "init"]

\* <<requests, errors>> and <<calls, failures>> recorded so far: none, few, the
\* error rates 5, 6, 10 and 11 in a hundred, and rates just past 5% and 10%
RequestLoads == {<<0, 0>>, <<1, 0>>, <<1, 1>>, <<100, 5>>, <<100, 6>>, <<100, 10>>,
                 <<100, 11>>, <<1019, 51>>, <<2009, 201>>}
UpstreamLoads == {<<0, 0>>, <<10, 0>>, <<10, 1>>, <<10, 2>>, <<2009, 201>>}

\* A window of n durations, all 100 ms but a 500 ms one in place j and a 300 ms
\* one in place k
Spiked(n, j, k) == [i \in 1..n |-> IF i = j THEN 500 ELSE IF i = k THEN 300 ELSE 100]

\* the windows whose percentile is taken: 100 to 500 ms in steps of 100, in
\* order and out of order, and up to MaxSamples durations with one or two slow ones
Windows ==
    {<<100, 200, 300, 400, 500>>, <<500, 100, 400, 200, 300>>}
        \cup {Spiked(n, j, k) : n \in 1..MaxSamples, j \in 1..MaxSamples, k \in 1..MaxSamples}

\* A collector that has recorded the durations of window, in that order, as
\* successful requests on one endpoint.
Sampled(window) ==
    LET endpoint == Endpoint("POST", "/generate") IN
    /\ request_count = [e \in {endpoint} |-> Len(window)]
    /\ error_count = <<>>
    /\ response_times = [e \in {endpoint} |-> window]
    /\ arrived = [e \in {endpoint} |->
                    [i \in 1..Len(window) |-> [duration |-> window[i], status_code |-> 200]]]
    /\ openai_calls = 0
    /\ openai_errors = 0
    /\ openai_tokens_used = 0
    /\ openai_cost = 0
    /\ cache_hits = 0
    /\ cache_misses = 0
    /\ start_time = 0
    /\ window_size = GlobalWindowSize
    /\ report = [op |-> "init"]

\* no _generate_key call yet
NoKey == [called |-> FALSE]

\* no call made on the two limiters yet
NoTwin == [buckets |-> <<>>, called |-> FALSE]

\* nothing observed yet
GhostsNew ==
    /\ arrived = <<>>
    /\ admissions = <<>>
    /\ twin = NoTwin
    /\ trace = <<>>

\* ------------------------------------------------------------------ actions
Init ==
    /\ now = 0
    /\ buckets = <<>>
    /\ track = <<>>
    /\ swept = NoSweep
    /\ steps = 0
    /\ CacheNew(GlobalMaxSize, GlobalTTL)
    /\ fp = NoKey
    /\ threads = NoThreads
    /\ GhostsNew
    /\ MetricsNew(GlobalWindowSize)

\* A rate-limited request of client c on endpoint e (dispatch, lines 134-145):
\* check_rate_limit, and get_retry_after when it was refused.
Admit(c, e) ==
    /\ LET res == CheckRateLimit(buckets, c, e, now)
           retry == IF res.allowed THEN 0 ELSE GetRetryAfter(res.buckets, c, e)
           k == <<c, e>>
           old == IF k \in DOMAIN track THEN track[k] ELSE [born |-> now, n |-> 0]
           prev == IF k \in DOMAIN track
                   THEN [allowed |-> track[k].allowed, retry |-> track[k].retry,
                         gap |-> now - Bucket(buckets, k).last_update]
                   ELSE NoCall
       IN  /\ buckets' = res.buckets
           /\ track' = [x \in (DOMAIN track) \cup {k} |->
                          IF x = k THEN [born |-> old.born, n |-> old.n + 1,
                                         allowed |-> res.allowed, retry |-> retry,
                                         prev |-> prev]
                          ELSE track[x]]
    /\ swept' = NoSweep
    /\ steps' = steps + 1
    /\ UNCHANGED <<now, cacheVars, fp, threads, metricsVars, ghostVars>>

\* cleanup_old_entries(max_age_seconds)
Sweep(max_age) ==
    /\ buckets' = CleanupOldEntries(buckets, now, max_age)
    /\ track' = [k \in Keys(buckets') |-> track[k]]
    /\ swept' = [max_age |-> max_age,
                 removed |-> Cardinality(Keys(buckets)) - Cardinality(Keys(buckets'))]
    /\ steps' = steps + 1
    /\ UNCHANGED <<now, cacheVars, fp, threads, metricsVars, ghostVars>>

\* the clock advances by d ticks
Tick(d) ==
    /\ now + d <= MaxTime
    /\ now' = now + d
    /\ swept' = NoSweep
    /\ steps' = steps + 1
    /\ UNCHANGED <<buckets, track, cacheVars, fp, threads, metricsVars, ghostVars>>

\* clock steps: one tick, one second, and each endpoint's time to refill one token
Deltas == {1, TicksPerSec} \cup {Scale \div Limit(e) : e \in Routes}

\* Any clients, endpoints, sweeps and clock steps, MaxSteps operations long.
Next ==
    \/ \E c \in Clients, e \in Routes : steps < MaxSteps /\ Admit(c, e)
    \/ \E a \in 0..MaxAge : steps < MaxSteps /\ Sweep(a)
    \/ \E d \in Deltas : steps < MaxSteps /\ Tick(d)

Spec == Init /\ [][Next]_vars

\* One client bursting on one endpoint with no other traffic: up to
\* burst + MaxOver calls while the clock moves tick by tick past one second.
BurstCall(c, e) ==
    /\ Keys(buckets) \subseteq {<<c, e>>}
    /\ (<<c, e>> \in DOMAIN track => track[<<c, e>>].n < Burst(e) + MaxOver)
    /\ Admit(c, e)

BurstTick ==
    /\ now <= TicksPerSec
    /\ Tick(1)

BurstNext ==
    \/ \E c \in Clients, e \in Routes : BurstCall(c, e)
    \/ BurstTick

BurstSpec == Init /\ [][BurstNext]_vars

\* check_rate_limit for client c on endpoint e, the time of the call kept when
\* it is admitted
AdmitTimed(c, e) ==
    /\ LET res == CheckRateLimit(buckets, c, e, now)
           k == <<c, e>>
           before == IF k \in DOMAIN admissions THEN admissions[k] ELSE <<>>
       IN  /\ buckets' = res.buckets
           /\ admissions' = [x \in (DOMAIN admissions) \cup {k} |->
                               IF x # k THEN admissions[x]
                               ELSE IF res.allowed THEN Append(before, now) ELSE before]
    /\ steps' = steps + 1
    /\ UNCHANGED <<now, track, swept, cacheVars, fp, threads, metricsVars, arrived, twin,
                   trace>>

\* One client calling any endpoint as the clock moves, never swept: MaxCalls
\* operations long.
AdmissionNext ==
    \/ \E e \in Routes : steps < MaxCalls /\ AdmitTimed("c1", e)
    \/ \E d \in Deltas : steps < MaxCalls /\ Tick(d)

AdmissionSpec == Init /\ [][AdmissionNext]_vars

\* check_rate_limit for client c on endpoint e at the same time on the limiter
\* and on its twin
AdmitBoth(c, e) ==
    /\ LET res == CheckRateLimit(buckets, c, e, now)
           res2 == CheckRateLimit(twin.buckets, c, e, now)
       IN  /\ buckets' = res.buckets
           /\ twin' = [buckets |-> res2.buckets, called |-> TRUE, allowed |-> res.allowed,
                       twin_allowed |-> res2.allowed,
                       fresh |-> ~HasBucket(buckets, c, e) /\ HasBucket(twin.buckets, c, e),
                       held |-> IF HasBucket(twin.buckets, c, e)
                                THEN twin.buckets[c][e].tokens ELSE Burst(e) * Scale]
    /\ swept' = NoSweep
    /\ steps' = steps + 1
    /\ UNCHANGED <<now, track, cacheVars, fp, threads, metricsVars, arrived, admissions,
                   trace>>

\* cleanup_old_entries() on the limiter; its twin is left alone
SweepLive ==
    /\ buckets' = CleanupOldEntries(buckets, now, DefaultMaxAge)
    /\ swept' = [max_age |-> DefaultMaxAge,
                 removed |-> Cardinality(Keys(buckets)) - Cardinality(Keys(buckets'))]
    /\ steps' = steps + 1
    /\ UNCHANGED <<now, track, cacheVars, fp, threads, metricsVars, ghostVars>>

\* the clock advances by d ticks, for hours if need be
Wait(d) ==
    /\ now + d <= MaxHours * 3600 * TicksPerSec
    /\ now' = now + d
    /\ swept' = NoSweep
    /\ steps' = steps + 1
    /\ UNCHANGED <<buckets, track, cacheVars, fp, threads, metricsVars, ghostVars>>

\* clock steps: a tick, the longest time any endpoint needs for one token,
\* exactly the sweep's max age, and a tick more than that
Waits == {1, Scale \div Limit("/generate"), DefaultMaxAge * TicksPerSec,
          DefaultMaxAge * TicksPerSec + 1}

\* One client calling any endpoint, sweeps at any point, the clock moving by
\* ticks or by hours: MaxCalls operations long.
SweepNext ==
    \/ \E e \in Routes : steps < MaxCalls /\ AdmitBoth("c1", e)
    \/ steps < MaxCalls /\ SweepLive
    \/ \E d \in Waits : steps < MaxCalls /\ Wait(d)

SweepSpec == Init /\ [][SweepNext]_vars

\* The cache alone: any capacity and TTL, MaxCacheSteps operations long.
CacheInit ==
    /\ now = 0
    /\ buckets = <<>>
    /\ track = <<>>
    /\ swept = NoSweep
    /\ steps = 0
    /\ \E size \in 1..MaxSize, ttl \in 1..MaxTTL : CacheNew(size, ttl)
    /\ fp = NoKey
    /\ threads = NoThreads
    /\ GhostsNew
    /\ MetricsNew(GlobalWindowSize)

CacheNext ==
    \/ \E req \in Requests : steps < MaxCacheSteps /\ Get(req)
    \/ \E req \in Requests, v \in Values : steps < MaxCacheSteps /\ Set(req, v)
    \/ steps < MaxCacheSteps /\ Clear
    \/ steps < MaxCacheSteps /\ CleanupExpired
    \/ \E d \in {1, TicksPerSec} : steps < MaxCacheSteps /\ Tick(d)

CacheSpec == CacheInit /\ [][CacheNext]_vars

\* _generate_key applied to any request
Fingerprint(req) ==
    /\ fp' = [called |-> TRUE, req |-> req, key |-> GenerateKey(req)]
    /\ UNCHANGED <<now, steps, limiterVars, cacheVars, threads, metricsVars, ghostVars>>

FingerprintNext == \E req \in KeyRequests : Fingerprint(req)

FingerprintSpec == Init /\ [][FingerprintNext]_vars

\* The collector alone, after any of the loads: MaxMetricsSteps operations long.
HealthInit ==
    /\ now = 0
    /\ buckets = <<>>
    /\ track = <<>>
    /\ swept = NoSweep
    /\ steps = 0
    /\ CacheNew(GlobalMaxSize, GlobalTTL)
    /\ fp = NoKey
    /\ threads = NoThreads
    /\ GhostsNew
    /\ \E size \in 1..MaxWindow, r \in RequestLoads, d \in Durations, u \in UpstreamLoads :
         Loaded(size, r[1], r[2], d, u[1], u[2])

HealthNext ==
    \/ \E method \in Methods, path \in Paths, status_code \in Statuses, d \in Durations :
         steps < MaxMetricsSteps /\ RecordRequest(method, path, status_code, d)
    \/ \E success \in BOOLEAN : steps < MaxMetricsSteps /\ RecordOpenaiCall(success, 4096, 8)
    \/ \E hit \in BOOLEAN : steps < MaxMetricsSteps /\ RecordCache(hit)
    \/ steps < MaxMetricsSteps /\ GetMetrics
    \/ steps < MaxMetricsSteps /\ GetHealthStatus
    \/ steps < MaxMetricsSteps /\ Tick(1)

HealthSpec == HealthInit /\ [][HealthNext]_vars

\* A new collector with any window size: MaxRecords operations long.
MetricsInit ==
    /\ now = 0
    /\ buckets = <<>>
    /\ track = <<>>
    /\ swept = NoSweep
    /\ steps = 0
    /\ CacheNew(GlobalMaxSize, GlobalTTL)
    /\ fp = NoKey
    /\ threads = NoThreads
    /\ GhostsNew
    /\ \E size \in 1..MaxWindow : MetricsNew(size)

MetricsNext ==
    \/ \E path \in Paths, status_code \in Statuses, d \in Durations :
         steps < MaxRecords /\ RecordRequest("POST", path, status_code, d)
    \/ \E success \in BOOLEAN, usage \in Usages :
         steps < MaxRecords /\ RecordOpenaiCall(success, usage[1], usage[2])
    \/ \E hit \in BOOLEAN : steps < MaxRecords /\ RecordCache(hit)
    \/ steps < MaxRecords /\ GetMetrics
    \/ steps < MaxRecords /\ GetHealthStatus
    \/ steps < MaxRecords /\ Tick(1)

MetricsSpec == MetricsInit /\ [][MetricsNext]_vars

\* The module-level collector after any of the windows was recorded:
\* MaxMetricsSteps operations long.
PercentileInit ==
    /\ now = 0
    /\ buckets = <<>>
    /\ track = <<>>
    /\ swept = NoSweep
    /\ steps = 0
    /\ CacheNew(GlobalMaxSize, GlobalTTL)
    /\ fp = NoKey
    /\ threads = NoThreads
    /\ admissions = <<>>
    /\ twin = NoTwin
    /\ trace = <<>>
    /\ \E window \in Windows : Sampled(window)

PercentileNext ==
    \/ \E status_code \in Statuses, d \in Durations :
         steps < MaxMetricsSteps /\ RecordRequest("POST", "/generate", status_code, d)
    \/ steps < MaxMetricsSteps /\ GetMetrics

PercentileSpec == PercentileInit /\ [][PercentileNext]_vars

\* ---------------------------------------------------- calls on several threads
\* No method of RateLimiter, LRUCache or MetricsCollector takes a lock, so calls
\* made from different threads interleave statement by statement.  A call in
\* progress is a frame: the method (op), the source line it is about to run
\* (pc) and its local variables; "returned" and "raised" end it.

Idle(t) == threads[t].pc \in {"idle", "returned", "raised"}
At(t, op, pc) == threads[t].op = op /\ threads[t].pc = pc
SetFrame(t, f) == [threads EXCEPT ![t] = f]
Goto(t, pc) == SetFrame(t, [threads[t] EXCEPT !.pc = pc])

\* self.buckets[client_id] read: defaultdict(dict) inserts an empty dict for a
\* client it does not hold
Materialize(b, c) ==
    IF c \in DOMAIN b THEN b ELSE [x \in (DOMAIN b) \cup {c} |-> IF x = c THEN <<>> ELSE b[x]]

\* del self.buckets[client_id][endpoint]
DelBucket(b, c, e) == [b EXCEPT ![c] = [x \in (DOMAIN b[c]) \ {e} |-> b[c][x]]]

\* del self.buckets[client_id]
DelClient(b, c) == [x \in (DOMAIN b) \ {c} |-> b[x]]

\* check_rate_limit enters: lines 53-58, the locals
BeginCheck(t, c, e) ==
    /\ Idle(t)
    /\ threads' = SetFrame(t, [op |-> "check_rate_limit", pc |-> "61", client_id |-> c,
                               endpoint |-> e, current_time |-> now])
    /\ steps' = steps + 1
    /\ UNCHANGED <<now, limiterVars, cacheVars, fp, metricsVars, ghostVars>>

\* line 61: if endpoint not in self.buckets[client_id]
Check61(t) ==
    /\ At(t, "check_rate_limit", "61")
    /\ LET f == threads[t] IN
       /\ buckets' = Materialize(buckets, f.client_id)
       /\ threads' = Goto(t, IF HasBucket(buckets, f.client_id, f.endpoint)
                             THEN "64" ELSE "62")
    /\ UNCHANGED <<now, steps, track, swept, cacheVars, fp, metricsVars, ghostVars>>

\* line 62: self.buckets[client_id][endpoint] = (max_burst, current_time)
Check62(t) ==
    /\ At(t, "check_rate_limit", "62")
    /\ LET f == threads[t] IN
       buckets' = PutBucket(buckets, f.client_id, f.endpoint,
                            [tokens |-> Burst(f.endpoint) * Scale,
                             last_update |-> f.current_time])
    /\ threads' = Goto(t, "64")
    /\ UNCHANGED <<now, steps, track, swept, cacheVars, fp, metricsVars, ghostVars>>

\* line 64: tokens, last_update = self.buckets[client_id][endpoint]
\* (KeyError when the endpoint is gone)
Check64(t) ==
    /\ At(t, "check_rate_limit", "64")
    /\ LET f == threads[t] IN
       /\ buckets' = Materialize(buckets, f.client_id)
       /\ threads' =
            IF HasBucket(buckets, f.client_id, f.endpoint)
            THEN SetFrame(t, [op |-> f.op, pc |-> "67", client_id |-> f.client_id,
                              endpoint |-> f.endpoint, current_time |-> f.current_time,
                              tokens |-> buckets[f.client_id][f.endpoint].tokens,
                              last_update |-> buckets[f.client_id][f.endpoint].last_update])
            ELSE Goto(t, "raised")
    /\ UNCHANGED <<now, steps, track, swept, cacheVars, fp, metricsVars, ghostVars>>

\* lines 67-80: refill the tokens read, decide, store the bucket, return
Check67(t) ==
    /\ At(t, "check_rate_limit", "67")
    /\ LET f == threads[t]
           k == <<f.client_id, f.endpoint>>
           tokens == Refill(f.tokens, f.current_time - f.last_update, f.endpoint)
           allowed == tokens >= Scale
           left == IF allowed THEN tokens - Scale ELSE tokens
           old == IF k \in DOMAIN track THEN track[k] ELSE [n |-> 0, admitted |-> 0]
       IN  /\ buckets' = PutBucket(buckets, f.client_id, f.endpoint,
                                    [tokens |-> left, last_update |-> f.current_time])
           /\ threads' = SetFrame(t, [op |-> f.op, pc |-> "returned",
                                      client_id |-> f.client_id, endpoint |-> f.endpoint,
                                      current_time |-> f.current_time,
                                      allowed |-> allowed])
           /\ track' = [x \in (DOMAIN track) \cup {k} |->
                          IF x = k THEN [n |-> old.n + 1,
                                         admitted |-> old.admitted + (IF allowed THEN 1 ELSE 0)]
                          ELSE track[x]]
    /\ UNCHANGED <<now, steps, swept, cacheVars, fp, metricsVars, ghostVars>>

\* cleanup_old_entries(max_age_seconds) enters: line 101
BeginCleanup(t, max_age) ==
    /\ Idle(t)
    /\ threads' = SetFrame(t, [op |-> "cleanup_old_entries", pc |-> "103",
                               max_age |-> max_age, current_time |-> now,
                               clients |-> {}, client_id |-> None,
                               endpoints |-> {}, endpoint |-> None])
    /\ steps' = steps + 1
    /\ UNCHANGED <<now, limiterVars, cacheVars, fp, metricsVars, ghostVars>>

\* line 103: list(self.buckets.keys()), the clients to visit
Cleanup103(t) ==
    /\ At(t, "cleanup_old_entries", "103")
    /\ threads' = SetFrame(t, [threads[t] EXCEPT !.clients = DOMAIN buckets, !.pc = "104"])
    /\ UNCHANGED <<now, steps, limiterVars, cacheVars, fp, metricsVars, ghostVars>>

\* lines 103-104: the next client (the model's dicts do not order their keys:
\* any order), and list(self.buckets[client_id].keys()), its endpoints to visit
Cleanup104(t) ==
    /\ At(t, "cleanup_old_entries", "104")
    /\ LET f == threads[t] IN
       IF f.clients = {}
       THEN /\ threads' = Goto(t, "returned")
            /\ UNCHANGED buckets
       ELSE \E c \in f.clients :
              /\ buckets' = Materialize(buckets, c)
              /\ threads' = SetFrame(t, [f EXCEPT !.clients = f.clients \ {c},
                                                  !.client_id = c,
                                                  !.endpoints = DOMAIN buckets'[c],
                                                  !.pc = "105"])
    /\ UNCHANGED <<now, steps, track, swept, cacheVars, fp, metricsVars, ghostVars>>

\* lines 104-106: the next endpoint, its last_update (KeyError when the
\* endpoint is gone) and the age test
Cleanup105(t) ==
    /\ At(t, "cleanup_old_entries", "105")
    /\ LET f == threads[t] IN
       IF f.endpoints = {}
       THEN /\ threads' = Goto(t, "110")
            /\ UNCHANGED buckets
       ELSE \E e \in f.endpoints :
              /\ buckets' = Materialize(buckets, f.client_id)
              /\ threads' =
                   IF ~HasBucket(buckets, f.client_id, e)
                   THEN Goto(t, "raised")
                   ELSE SetFrame(t, [f EXCEPT
                          !.endpoints = f.endpoints \ {e},
                          !.endpoint = e,
                          !.pc = IF f.current_time - buckets[f.client_id][e].last_update
                                      > f.max_age * TicksPerSec
                                 THEN "107" ELSE "105"])
    /\ UNCHANGED <<now, steps, track, swept, cacheVars, fp, metricsVars, ghostVars>>

\* line 107: del self.buckets[client_id][endpoint]
Cleanup107(t) ==
    /\ At(t, "cleanup_old_entries", "107")
    /\ LET f == threads[t]
           b == Materialize(buckets, f.client_id)
       IN  IF HasBucket(b, f.client_id, f.endpoint)
           THEN /\ buckets' = DelBucket(b, f.client_id, f.endpoint)
                /\ threads' = Goto(t, "105")
           ELSE /\ buckets' = b
                /\ threads' = Goto(t, "raised")
    /\ UNCHANGED <<now, steps, track, swept, cacheVars, fp, metricsVars, ghostVars>>

\* line 110: if not self.buckets[client_id]
Cleanup110(t) ==
    /\ At(t, "cleanup_old_entries", "110")
    /\ LET f == threads[t] IN
       /\ buckets' = Materialize(buckets, f.client_id)
       /\ threads' = Goto(t, IF DOMAIN buckets'[f.client_id] = {} THEN "111" ELSE "104")
    /\ UNCHANGED <<now, steps, track, swept, cacheVars, fp, metricsVars, ghostVars>>

\* line 111: del self.buckets[client_id]
Cleanup111(t) ==
    /\ At(t, "cleanup_old_entries", "111")
    /\ LET f == threads[t] IN
       IF f.client_id \in DOMAIN buckets
       THEN /\ buckets' = DelClient(buckets, f.client_id)
            /\ threads' = Goto(t, "104")
       ELSE /\ threads' = Goto(t, "raised")
            /\ UNCHANGED buckets
    /\ UNCHANGED <<now, steps, track, swept, cacheVars, fp, metricsVars, ghostVars>>

\* Requests on two worker threads and the periodic cleanup on a third, from
\* a new limiter, MaxThreadOps calls and clock ticks long.
LimiterThreadsNext ==
    \/ \E t \in Workers, c \in Clients, e \in ThreadRoutes :
         steps < MaxThreadOps /\ BeginCheck(t, c, e)
    \/ \E t \in Workers : Check61(t)
    \/ \E t \in Workers : Check62(t)
    \/ \E t \in Workers : Check64(t)
    \/ \E t \in Workers : Check67(t)
    \/ \E a \in 0..MaxAge : steps < MaxThreadOps /\ BeginCleanup(Sweeper, a)
    \/ Cleanup103(Sweeper)
    \/ Cleanup104(Sweeper)
    \/ Cleanup105(Sweeper)
    \/ Cleanup107(Sweeper)
    \/ Cleanup110(Sweeper)
    \/ Cleanup111(Sweeper)
    \/ steps < MaxThreadOps /\ Tick(1)

LimiterThreadsSpec == Init /\ [][LimiterThreadsNext]_vars

\* LRUCache.set enters: line 76, the key
BeginSet(t, req, value) ==
    /\ Idle(t)
    /\ threads' = SetFrame(t, [op |-> "set", pc |-> "79", key |-> GenerateKey(req),
                               value |-> value, oldest_key |-> None])
    /\ steps' = steps + 1
    /\ UNCHANGED <<now, limiterVars, cacheVars, fp, metricsVars, ghostVars>>

\* line 79: if len(self.cache) >= self.max_size
Set79(t) ==
    /\ At(t, "set", "79")
    /\ threads' = Goto(t, IF Len(cache) >= max_size THEN "80" ELSE "85")
    /\ UNCHANGED <<now, steps, limiterVars, cacheVars, fp, metricsVars, ghostVars>>

\* line 80: oldest_key = next(iter(self.cache))  (StopIteration when empty)
Set80(t) ==
    /\ At(t, "set", "80")
    /\ threads' = IF cache = <<>>
                  THEN Goto(t, "raised")
                  ELSE SetFrame(t, [threads[t] EXCEPT !.oldest_key = cache[1].key,
                                                      !.pc = "81"])
    /\ UNCHANGED <<now, steps, limiterVars, cacheVars, fp, metricsVars, ghostVars>>

\* line 81: del self.cache[oldest_key]  (KeyError when it is gone)
Set81(t) ==
    /\ At(t, "set", "81")
    /\ IF threads[t].oldest_key \in CacheKeys(cache)
       THEN /\ cache' = Without(cache, threads[t].oldest_key)
            /\ threads' = Goto(t, "82")
       ELSE /\ threads' = Goto(t, "raised")
            /\ UNCHANGED cache
    /\ UNCHANGED <<now, steps, limiterVars, max_size, ttl_seconds, hits, misses, evictions,
                   ret, recency, fp, metricsVars, ghostVars>>

\* line 82: self.evictions += 1
Set82(t) ==
    /\ At(t, "set", "82")
    /\ evictions' = evictions + 1
    /\ threads' = Goto(t, "85")
    /\ UNCHANGED <<now, steps, limiterVars, cache, max_size, ttl_seconds, hits, misses,
                   ret, recency, fp, metricsVars, ghostVars>>

\* line 85: self.cache[key] = (value, time.time())
Set85(t) ==
    /\ At(t, "set", "85")
    /\ LET f == threads[t] IN
       cache' = Assign(cache, f.key, [key |-> f.key, value |-> f.value, timestamp |-> now])
    /\ threads' = Goto(t, "returned")
    /\ UNCHANGED <<now, steps, limiterVars, max_size, ttl_seconds, hits, misses, evictions,
                   ret, recency, fp, metricsVars, ghostVars>>

\* LRUCache.get enters: line 52, the key
BeginGet(t, req) ==
    /\ Idle(t)
    /\ threads' = SetFrame(t, [op |-> "get", pc |-> "54", key |-> GenerateKey(req),
                               value |-> None, timestamp |-> 0])
    /\ steps' = steps + 1
    /\ UNCHANGED <<now, limiterVars, cacheVars, fp, metricsVars, ghostVars>>

\* line 54: if key in self.cache
Get54(t) ==
    /\ At(t, "get", "54")
    /\ threads' = Goto(t, IF threads[t].key \in CacheKeys(cache) THEN "55" ELSE "69")
    /\ UNCHANGED <<now, steps, limiterVars, cacheVars, fp, metricsVars, ghostVars>>

\* lines 55-58: value, timestamp = self.cache[key]  (KeyError when it is
\* gone), and the expiry test
Get55(t) ==
    /\ At(t, "get", "55")
    /\ LET f == threads[t] IN
       threads' =
         IF f.key \notin CacheKeys(cache)
         THEN Goto(t, "raised")
         ELSE LET x == cache[IndexOf(cache, f.key)] IN
              SetFrame(t, [f EXCEPT !.value = x.value, !.timestamp = x.timestamp,
                                    !.pc = IF Expired(x, now, ttl_seconds)
                                           THEN "60" ELSE "65"])
    /\ UNCHANGED <<now, steps, limiterVars, cacheVars, fp, metricsVars, ghostVars>>

\* line 60: del self.cache[key]
Get60(t) ==
    /\ At(t, "get", "60")
    /\ IF threads[t].key \in CacheKeys(cache)
       THEN /\ cache' = Without(cache, threads[t].key)
            /\ threads' = Goto(t, "69")
       ELSE /\ threads' = Goto(t, "raised")
            /\ UNCHANGED cache
    /\ UNCHANGED <<now, steps, limiterVars, max_size, ttl_seconds, hits, misses, evictions,
                   ret, recency, fp, metricsVars, ghostVars>>

\* line 65: self.cache.move_to_end(key)
Get65(t) ==
    /\ At(t, "get", "65")
    /\ IF threads[t].key \in CacheKeys(cache)
       THEN /\ cache' = MoveToEnd(cache, threads[t].key)
            /\ threads' = Goto(t, "66")
       ELSE /\ threads' = Goto(t, "raised")
            /\ UNCHANGED cache
    /\ UNCHANGED <<now, steps, limiterVars, max_size, ttl_seconds, hits, misses, evictions,
                   ret, recency, fp, metricsVars, ghostVars>>

\* lines 66-67: self.hits += 1; return value
Get66(t) ==
    /\ At(t, "get", "66")
    /\ hits' = hits + 1
    /\ threads' = Goto(t, "returned")
    /\ UNCHANGED <<now, steps, limiterVars, cache, max_size, ttl_seconds, misses, evictions,
                   ret, recency, fp, metricsVars, ghostVars>>

\* lines 61-62 and 69-70: self.misses += 1; return None
Get69(t) ==
    /\ At(t, "get", "69")
    /\ misses' = misses + 1
    /\ threads' = SetFrame(t, [threads[t] EXCEPT !.value = None, !.pc = "returned"])
    /\ UNCHANGED <<now, steps, limiterVars, cache, max_size, ttl_seconds, hits, evictions,
                   ret, recency, fp, metricsVars, ghostVars>>

\* the requests made on the threads: three with different keys
ThreadRequests == {r \in Requests : r.tech_stack = StackA}

\* Gets and sets on two threads, any capacity and TTL, MaxThreadOps calls and
\* clock ticks long.
CacheThreadsNext ==
    \/ \E t \in Workers, req \in ThreadRequests, v \in Values :
         steps < MaxThreadOps /\ BeginSet(t, req, v)
    \/ \E t \in Workers : Set79(t)
    \/ \E t \in Workers : Set80(t)
    \/ \E t \in Workers : Set81(t)
    \/ \E t \in Workers : Set82(t)
    \/ \E t \in Workers : Set85(t)
    \/ \E t \in Workers, req \in ThreadRequests : steps < MaxThreadOps /\ BeginGet(t, req)
    \/ \E t \in Workers : Get54(t)
    \/ \E t \in Workers : Get55(t)
    \/ \E t \in Workers : Get60(t)
    \/ \E t \in Workers : Get65(t)
    \/ \E t \in Workers : Get66(t)
    \/ \E t \in Workers : Get69(t)
    \/ \E d \in {1, TicksPerSec} : steps < MaxThreadOps /\ Tick(d)

CacheThreadsSpec == CacheInit /\ [][CacheThreadsNext]_vars

\* record_request enters: line 48, the endpoint
BeginRecord(t, method, path, status_code, duration) ==
    /\ Idle(t)
    /\ threads' = SetFrame(t, [op |-> "record_request", pc |-> "50",
                               endpoint |-> Endpoint(method, path),
                               status_code |-> status_code, duration |-> duration])
    /\ steps' = steps + 1
    /\ UNCHANGED <<now, limiterVars, cacheVars, fp, metricsVars, ghostVars>>

\* line 50: self.request_count[endpoint] += 1
Record50(t) ==
    /\ At(t, "record_request", "50")
    /\ request_count' = Incr(request_count, threads[t].endpoint)
    /\ threads' = Goto(t, "51")
    /\ UNCHANGED <<now, steps, limiterVars, cacheVars, fp, error_count, response_times,
                   openai_calls, openai_errors, openai_tokens_used, openai_cost, cache_hits,
                   cache_misses, start_time, window_size, ghostVars, report>>

\* line 51: self.response_times[endpoint].append(duration)
Record51(t) ==
    /\ At(t, "record_request", "51")
    /\ response_times' = AppendWindow(response_times, threads[t].endpoint,
                                       threads[t].duration, window_size)
    /\ threads' = Goto(t, "53")
    /\ UNCHANGED <<now, steps, limiterVars, cacheVars, fp, request_count, error_count,
                   openai_calls, openai_errors, openai_tokens_used, openai_cost, cache_hits,
                   cache_misses, start_time, window_size, ghostVars, report>>

\* lines 53-54: if status_code >= 400: self.error_count[endpoint] += 1
Record53(t) ==
    /\ At(t, "record_request", "53")
    /\ error_count' = IF threads[t].status_code >= 400
                      THEN Incr(error_count, threads[t].endpoint) ELSE error_count
    /\ threads' = Goto(t, "returned")
    /\ UNCHANGED <<now, steps, limiterVars, cacheVars, fp, request_count, response_times,
                   openai_calls, openai_errors, openai_tokens_used, openai_cost, cache_hits,
                   cache_misses, start_time, window_size, ghostVars, report>>

\* get_metrics enters, called directly or by get_health_status (line 158)
BeginMetrics(t, for_health) ==
    /\ Idle(t)
    /\ threads' = SetFrame(t, [MetricsLocals EXCEPT !.for_health = for_health])
    /\ steps' = steps + 1
    /\ UNCHANGED <<now, limiterVars, cacheVars, fp, metricsVars, ghostVars>>

\* line 75
Metrics75(t) ==
    /\ At(t, "get_metrics", "75")
    /\ threads' = SetFrame(t, Locals75(threads[t]))
    /\ UNCHANGED <<now, steps, limiterVars, cacheVars, fp, request_count, error_count,
                   response_times, openai_calls, openai_errors, openai_tokens_used,
                   openai_cost, cache_hits, cache_misses, start_time, window_size, ghostVars, report>>

\* lines 81-88
Metrics81(t) ==
    /\ At(t, "get_metrics", "81")
    /\ threads' = SetFrame(t, Locals81(threads[t]))
    /\ UNCHANGED <<now, steps, limiterVars, cacheVars, fp, request_count, error_count,
                   response_times, openai_calls, openai_errors, openai_tokens_used,
                   openai_cost, cache_hits, cache_misses, start_time, window_size, ghostVars, report>>

\* line 91
Metrics91(t) ==
    /\ At(t, "get_metrics", "91")
    /\ threads' = SetFrame(t, Locals91(threads[t]))
    /\ UNCHANGED <<now, steps, limiterVars, cacheVars, fp, request_count, error_count,
                   response_times, openai_calls, openai_errors, openai_tokens_used,
                   openai_cost, cache_hits, cache_misses, start_time, window_size, ghostVars, report>>

\* line 92
Metrics92(t) ==
    /\ At(t, "get_metrics", "92")
    /\ threads' = SetFrame(t, Locals92(threads[t]))
    /\ UNCHANGED <<now, steps, limiterVars, cacheVars, fp, request_count, error_count,
                   response_times, openai_calls, openai_errors, openai_tokens_used,
                   openai_cost, cache_hits, cache_misses, start_time, window_size, ghostVars, report>>

\* lines 95-96
Metrics95(t) ==
    /\ At(t, "get_metrics", "95")
    /\ threads' = SetFrame(t, Locals95(threads[t]))
    /\ UNCHANGED <<now, steps, limiterVars, cacheVars, fp, request_count, error_count,
                   response_times, openai_calls, openai_errors, openai_tokens_used,
                   openai_cost, cache_hits, cache_misses, start_time, window_size, ghostVars, report>>

\* line 99
Metrics99(t) ==
    /\ At(t, "get_metrics", "99")
    /\ threads' = SetFrame(t, Locals99(threads[t]))
    /\ UNCHANGED <<now, steps, limiterVars, cacheVars, fp, request_count, error_count,
                   response_times, openai_calls, openai_errors, openai_tokens_used,
                   openai_cost, cache_hits, cache_misses, start_time, window_size, ghostVars, report>>

\* lines 100-101
Metrics100(t) ==
    /\ At(t, "get_metrics", "100")
    /\ threads' = SetFrame(t, Locals100(threads[t]))
    /\ UNCHANGED <<now, steps, limiterVars, cacheVars, fp, request_count, error_count,
                   response_times, openai_calls, openai_errors, openai_tokens_used,
                   openai_cost, cache_hits, cache_misses, start_time, window_size, ghostVars, report>>

\* lines 103-136: get_metrics returns, to its caller or into get_health_status
Metrics103(t) ==
    /\ At(t, "get_metrics", "103")
    /\ LET f == threads[t] IN
       IF f.for_health
       THEN /\ threads' = SetFrame(t, [f EXCEPT !.metrics = Result103(f), !.pc = "161"])
            /\ UNCHANGED report
       ELSE /\ threads' = Goto(t, "returned")
            /\ report' = Result103(f)
    /\ UNCHANGED <<now, steps, limiterVars, cacheVars, fp, request_count, error_count,
                   response_times, openai_calls, openai_errors, openai_tokens_used,
                   openai_cost, cache_hits, cache_misses, start_time, window_size, ghostVars>>

\* lines 161-193: the rest of get_health_status
Health161(t) ==
    /\ At(t, "get_metrics", "161")
    /\ report' = HealthResult(threads[t].metrics)
    /\ threads' = Goto(t, "returned")
    /\ UNCHANGED <<now, steps, limiterVars, cacheVars, fp, request_count, error_count,
                   response_times, openai_calls, openai_errors, openai_tokens_used,
                   openai_cost, cache_hits, cache_misses, start_time, window_size, ghostVars>>


\* Requests recorded and snapshots taken on two threads, from a new collector,
\* MaxThreadOps calls and clock ticks long.
MetricsThreadsNext ==
    \/ \E t \in Workers, path \in Paths, status_code \in Statuses :
         steps < MaxThreadOps /\ BeginRecord(t, "POST", path, status_code, 100)
    \/ \E t \in Workers : Record50(t)
    \/ \E t \in Workers : Record51(t)
    \/ \E t \in Workers : Record53(t)
    \/ \E t \in Workers, for_health \in BOOLEAN :
         steps < MaxThreadOps /\ BeginMetrics(t, for_health)
    \/ \E t \in Workers : Metrics75(t)
    \/ \E t \in Workers : Metrics81(t)
    \/ \E t \in Workers : Metrics91(t)
    \/ \E t \in Workers : Metrics92(t)
    \/ \E t \in Workers : Metrics95(t)
    \/ \E t \in Workers : Metrics99(t)
    \/ \E t \in Workers : Metrics100(t)
    \/ \E t \in Workers : Metrics103(t)
    \/ \E t \in Workers : Health161(t)
    \/ steps < MaxThreadOps /\ Tick(1)

MetricsThreadsSpec == Init /\ [][MetricsThreadsNext]_vars

\* ------------------------------------------------------ the application
\* main.py: the routes /generate and /generate/chained behind the middleware
\* stack.  The OpenAI client is synchronous and nothing a handler awaits
\* suspends before it is done, so the event loop runs a handler from its
\* first line to its response without another request in between.

\* app.add_middleware calls of main.py, in the order they are made;
\* RateLimitMiddleware, defined in rate_limiter.py, is not among them
Middlewares == <<"MetricsMiddleware", "SecurityHeadersMiddleware", "CORSMiddleware">>
Installed(name) == \E i \in DOMAIN Middlewares : Middlewares[i] = name

\* the paths RateLimitMiddleware.dispatch lets through unchecked
Unlimited == {"/", "/docs", "/openapi.json", "/redoc"}

\* one thing a request did; arg is text
Event(ev, arg) == [ev |-> ev, arg |-> arg]

\* RateLimitMiddleware.dispatch for client c on path, when the middleware is
\* installed: the limiter after it, what it did, and whether the request goes
\* on.  Its cleanup every 600 s is left out: the clock does not move while the
\* requests of GatewaySpec are served.
Dispatch(b, c, path) ==
    IF ~Installed("RateLimitMiddleware") \/ path \in Unlimited
    THEN [buckets |-> b, events |-> <<>>, passed |-> TRUE]
    ELSE LET res == CheckRateLimit(b, c, path, now) IN
         IF res.allowed
         THEN [buckets |-> res.buckets, events |-> <<Event("admit", "allowed")>>, passed |-> TRUE]
         ELSE [buckets |-> res.buckets,
               events |-> <<Event("admit", "refused"),
                            Event("respond", "429"),
                            Event("retry_after", ToString(GetRetryAfter(res.buckets, c, path)))>>,
               passed |-> FALSE]

\* the parameters of OpenAIService.generate_code, and the keywords that
\* generate_code of main.py passes to it
ServiceParams == {"image_data", "description", "tech_stack", "project_name"}
ServiceKeywords == {"image_data", "description", "tech_stack", "project_name",
                    "custom_prompt"}

\* What the chat.completions.create calls of one OpenAIService.generate_code
\* can do, in order: at most three, each after a RateLimitError ("limited").
ServiceRuns ==
    { <<"ok">>, <<"error">>, <<"limited", "ok">>, <<"limited", "error">>,
      <<"limited", "limited", "ok">>, <<"limited", "limited", "error">>,
      <<"limited", "limited", "limited">> }

\* chat.completions.create calls made by a generate_code_chained that nothing
\* stops: steps 1 and 2, four for the backend, four for the frontend, step 5
ChainedCalls == 11

\* the calls of one generate_code_chained: all of them succeed, or the first
\* one to fail ends the chain
ChainedRuns ==
    { [i \in 1..n |-> "ok"] \o (IF n < ChainedCalls THEN <<"error">> ELSE <<>>) :
        n \in 0..ChainedCalls }

\* the create calls of a run, as events
Invocations(run) == [i \in DOMAIN run |-> Event("invoke", run[i])]

\* await openai_service.generate_code(...) as main.py calls it: binding the
\* keywords fails with a TypeError before the body runs, or else the body makes
\* the calls of run and turns every failure into a ValueError.  status is the
\* response the handlers of main.py make of the outcome: a ValueError becomes
\* a ValidationException (400), any other exception an AppException (500).
ServiceCall(run) ==
    IF ~(ServiceKeywords \subseteq ServiceParams)
    THEN [ok |-> FALSE, events |-> <<Event("call", "TypeError")>>, status |-> 500]
    ELSE LET ok == run[Len(run)] = "ok" IN
         [ok |-> ok,
          events |-> Invocations(run) \o <<Event("call", IF ok THEN "ok" ELSE "ValueError")>>,
          status |-> IF ok THEN 200 ELSE 400]

\* LRUCache.get as a function: the cache after it, the value returned (None
\* for a miss) and the counters
Lookup(c, key, t, ttl) ==
    IF key \in CacheKeys(c)
    THEN LET x == c[IndexOf(c, key)] IN
         IF Expired(x, t, ttl)
         THEN [cache |-> Without(c, key), value |-> None, hit |-> FALSE]
         ELSE [cache |-> MoveToEnd(c, key), value |-> x.value, hit |-> TRUE]
    ELSE [cache |-> c, value |-> None, hit |-> FALSE]

\* LRUCache.set as a function
Store(c, size, key, value, t) ==
    Assign(EvictOldest(c, size), key, [key |-> key, value |-> value, timestamp |-> t])

\* a handler that caches the result whether or not the service call succeeded
AfterMissSetAnyway(c, key, call) ==
    [cache |-> Store(c, max_size, key, "v1", now),
     events |-> <<Event("record_cache", "miss")>> \o call.events
                \o <<Event("record_openai_call", IF call.ok THEN "ok" ELSE "failed")>> \o <<Event("set", "result")>>
                \o <<Event("respond", ToString(call.status))>>,
     status |-> call.status]

\* generate_code of main.py from line 221 on, after a miss on key: the cache
\* after it, what the handler did and the status of the response
AfterMiss(c, key, call) ==
    IF call.ok
    THEN [cache |-> Store(c, max_size, key, "v1", now),
          events |-> <<Event("record_cache", "miss")>> \o call.events
                     \o <<Event("record_openai_call", "ok"), Event("set", "result"),
                          Event("respond", "200")>>,
          status |-> 200]
    ELSE [cache |-> c,
          events |-> <<Event("record_cache", "miss")>> \o call.events
                     \o <<Event("record_openai_call", "failed"),
                          Event("respond", ToString(call.status))>>,
          status |-> call.status]

\* a request that an exception ends before the handler does anything else
Refused(status) == <<Event("respond", ToString(status))>>

\* MetricsMiddleware.dispatch once the response is there: record_request
Recorded(method, path, status_code, duration) ==
    LET endpoint == Endpoint(method, path) IN
    /\ request_count' = Incr(request_count, endpoint)
    /\ response_times' = AppendWindow(response_times, endpoint, duration, window_size)
    /\ error_count' = IF status_code >= 400 THEN Incr(error_count, endpoint) ELSE error_count
    /\ arrived' = [x \in (DOMAIN arrived) \cup {endpoint} |->
                     IF x = endpoint
                     THEN Append(IF x \in DOMAIN arrived THEN arrived[x] ELSE <<>>,
                                 [duration |-> duration, status_code |-> status_code])
                     ELSE arrived[x]]

\* POST /generate by client c: the middleware stack, generate_code, and the
\* response going back through MetricsMiddleware.  configured: an OpenAI API
\* key is set; valid: the image passes validate_base64_image.
GenerateCode(c, req, configured, valid, run, d) ==
    LET gate == Dispatch(buckets, c, "/generate")
        key == GenerateKey(req)
        look == Lookup(cache, key, now, ttl_seconds)
        miss == AfterMiss(look.cache, key, ServiceCall(run))
        reached == gate.passed /\ configured /\ valid
        status == IF ~gate.passed THEN 429
                  ELSE IF ~configured THEN 401
                  ELSE IF ~valid THEN 400
                  ELSE IF look.hit THEN 200 ELSE miss.status
    IN
    /\ buckets' = gate.buckets
    /\ trace' = <<Event("request", "/generate")>> \o gate.events \o
                (IF ~gate.passed THEN <<>>
                 ELSE IF ~configured THEN Refused(401)
                 ELSE IF ~valid THEN Refused(400)
                 ELSE IF look.hit
                      THEN <<Event("get", "hit"), Event("record_cache", "hit"),
                             Event("respond", "200")>>
                      ELSE <<Event("get", "miss")>> \o miss.events)
    /\ cache' = IF ~reached THEN cache ELSE IF look.hit THEN look.cache ELSE miss.cache
    /\ hits' = IF reached /\ look.hit THEN hits + 1 ELSE hits
    /\ misses' = IF reached /\ ~look.hit THEN misses + 1 ELSE misses
    /\ evictions' = IF reached /\ ~look.hit /\ status = 200 /\ Len(look.cache) >= max_size
                    THEN evictions + 1 ELSE evictions
    /\ ret' = IF ~reached THEN ret
              ELSE IF status = 200 /\ ~look.hit THEN Returned("set", key, None, "v1", None)
              ELSE Returned("get", key, look.value, None, IF look.hit THEN "hit" ELSE "absent")
    /\ recency' = IF ~reached THEN recency
                  ELSE IF look.hit \/ status = 200 THEN Used(recency, cache', key)
                  ELSE Remaining(recency, cache')
    /\ cache_hits' = IF reached /\ look.hit THEN cache_hits + 1 ELSE cache_hits
    /\ cache_misses' = IF reached /\ ~look.hit THEN cache_misses + 1 ELSE cache_misses
    /\ openai_calls' = IF reached /\ ~look.hit THEN openai_calls + 1 ELSE openai_calls
    /\ openai_errors' = IF reached /\ ~look.hit /\ status # 200
                        THEN openai_errors + 1 ELSE openai_errors
    /\ openai_tokens_used' = IF reached /\ ~look.hit /\ status = 200
                             THEN openai_tokens_used + 4096 ELSE openai_tokens_used
    /\ openai_cost' = IF reached /\ ~look.hit /\ status = 200
                      THEN openai_cost + 8 ELSE openai_cost
    /\ Recorded("POST", "/generate", status, d)
    /\ steps' = steps + 1
    /\ UNCHANGED <<now, track, swept, max_size, ttl_seconds, fp, threads, start_time,
                   window_size, report, admissions, twin>>

\* POST /generate/chained by client c: the middleware stack and
\* generate_code_chained, which uses no cache.
GenerateCodeChained(c, configured, valid, run, d) ==
    LET gate == Dispatch(buckets, c, "/generate/chained")
        reached == gate.passed /\ configured /\ valid
        ok == run[Len(run)] = "ok"
        status == IF ~gate.passed THEN 429
                  ELSE IF ~configured THEN 401
                  ELSE IF ~valid THEN 400
                  ELSE IF ok THEN 200 ELSE 500
    IN
    /\ buckets' = gate.buckets
    /\ trace' = <<Event("request", "/generate/chained")>> \o gate.events \o
                (IF ~gate.passed THEN <<>>
                 ELSE IF ~configured THEN Refused(401)
                 ELSE IF ~valid THEN Refused(400)
                 ELSE Invocations(run)
                      \o <<Event("call", IF ok THEN "ok" ELSE "Exception"),
                           Event("record_openai_call", IF ok THEN "ok" ELSE "failed"), Event("respond", ToString(status))>>)
    /\ openai_calls' = IF reached THEN openai_calls + 1 ELSE openai_calls
    /\ openai_errors' = IF reached /\ ~ok THEN openai_errors + 1 ELSE openai_errors
    /\ openai_tokens_used' = IF reached /\ ok THEN openai_tokens_used + 10000
                             ELSE openai_tokens_used
    /\ openai_cost' = IF reached /\ ok THEN openai_cost + 20 ELSE openai_cost
    /\ Recorded("POST", "/generate/chained", status, d)
    /\ steps' = steps + 1
    /\ UNCHANGED <<now, track, swept, cacheVars, fp, threads, cache_hits, cache_misses,
                   start_time, window_size, report, admissions, twin>>

\* the runs a generate_code call of main.py can lead to: none when it does not bind
BoundRuns == IF ServiceKeywords \subseteq ServiceParams THEN ServiceRuns ELSE {<<>>}

\* the requests sent: two with different keys
GatewayRequests == {r \in ThreadRequests : r.description = <<"a">>}

\* Requests of one client to the two routes, one after the other: MaxRequests
\* of them, each taking 100 ms.
GatewayNext ==
    \/ \E req \in GatewayRequests, configured \in BOOLEAN, valid \in BOOLEAN,
          run \in BoundRuns :
         steps < MaxRequests /\ GenerateCode("c1", req, configured, valid, run, 100)
    \/ \E configured \in BOOLEAN, valid \in BOOLEAN, run \in ChainedRuns :
         steps < MaxRequests /\ GenerateCodeChained("c1", configured, valid, run, 100)

GatewaySpec == Init /\ [][GatewayNext]_vars

\* ------------------------------------------------------------------ claims
\* the step is a check_rate_limit call on bucket k
Called(k) ==
    /\ k \in DOMAIN track'
    /\ IF k \in DOMAIN track THEN track'[k].n = track[k].n + 1 ELSE track'[k].n = 1

CeilDiv(a, b) == (a + b - 1) \div b

\* C1: in every reachable state every bucket holds between 0 and
\* burst_capacity(route) tokens.
C1_TokensWithinBurst ==
    \A k \in Keys(buckets) :
        /\ 0 <= Bucket(buckets, k).tokens
        /\ Bucket(buckets, k).tokens <= Burst(k[2]) * Scale

\* a second call that found its bucket refilled past the cap
C1_Witness ==
    \E k \in DOMAIN track :
        /\ track[k].n = 2
        /\ track[k].allowed
        /\ (Bucket(buckets, k).last_update - track[k].born) * Limit(k[2]) > Scale
        /\ Bucket(buckets, k).tokens = (Burst(k[2]) - 1) * Scale

\* C2: while every call on a bucket has come at the instant the bucket was
\* created, the first burst_capacity calls are admitted and call number
\* burst_capacity + 1 is refused with retry_after >= 1.
C2_Saturation ==
    \A k \in DOMAIN track :
        Bucket(buckets, k).last_update = track[k].born =>
            /\ track[k].n <= Burst(k[2]) => track[k].allowed
            /\ track[k].n = Burst(k[2]) + 1 => ~track[k].allowed /\ track[k].retry >= 1

\* call number burst + 1 on /health, all eleven at the creation instant
C2_Witness ==
    \E k \in DOMAIN track :
        /\ k[2] = "/health"
        /\ Bucket(buckets, k).last_update = track[k].born
        /\ track[k].n = Burst(k[2]) + 1
        /\ ~track[k].allowed

\* C3 (as claimed): every refusal reports
\* ceil((1 - tokens') / refill_rate) + 1 seconds.
C3_RetryAfterCeil ==
    \A k \in DOMAIN track :
        ~track[k].allowed =>
            track[k].retry =
                CeilDiv(Scale - Bucket(buckets, k).tokens, TicksPerSec * Limit(k[2])) + 1

\* C3 (amended): every refusal reports floor((1 - tokens') / refill_rate) + 1
\* seconds, tokens' being the refilled count the refusal stored.
C3_RetryAfterFloor ==
    \A k \in DOMAIN track :
        ~track[k].allowed =>
            /\ Bucket(buckets, k).tokens < Scale
            /\ track[k].retry =
                 ((Scale - Bucket(buckets, k).tokens) \div (TicksPerSec * Limit(k[2]))) + 1

\* a refusal whose time to one token is no whole number of seconds
C3_Witness ==
    \E k \in DOMAIN track :
        /\ ~track[k].allowed
        /\ (Scale - Bucket(buckets, k).tokens) % (TicksPerSec * Limit(k[2])) # 0

\* the bucket's latest call is one of the first six on a fresh /generate bucket,
\* all within one second of the first
InScenario(k) ==
    /\ k[2] = "/generate"
    /\ track[k].n <= 6
    /\ Bucket(buckets, k).last_update - track[k].born <= TicksPerSec

\* C4 (as claimed): in the scenario calls 1 and 2 are admitted, calls 3 to 6
\* are refused, and no refusal reports a smaller retry_after than the one before.
C4_RetryNeverDecreases ==
    \A k \in DOMAIN track :
        InScenario(k) =>
            /\ track[k].allowed <=> track[k].n <= 2
            /\ track[k].n >= 4 => track[k].retry >= track[k].prev.retry

\* C4 (amended): in the scenario calls 1 and 2 are admitted, calls 3 to 6 are
\* refused, and no refusal reports a larger retry_after than the one before.
C4_RetryNeverIncreases ==
    \A k \in DOMAIN track :
        InScenario(k) =>
            /\ track[k].allowed <=> track[k].n <= 2
            /\ track[k].n >= 4 => track[k].retry <= track[k].prev.retry

\* the sixth call, within the second, reporting less than the refusal before it
C4_Witness ==
    \E k \in DOMAIN track :
        /\ InScenario(k)
        /\ track[k].n = 6
        /\ ~track[k].allowed
        /\ track[k].retry < track[k].prev.retry

\* C5: a call refills to tokens' = min(burst, tokens + elapsed * rate / 60), is
\* admitted iff tokens' >= 1, leaves tokens' - 1 when admitted and tokens' when
\* refused, and sets last_refill = now either way.
C5_AdmitStep ==
    [][\A k \in Clients \X Routes :
          Called(k) =>
              LET e == k[2]
                  old == IF k \in Keys(buckets) THEN Bucket(buckets, k)
                         ELSE [tokens |-> Burst(e) * Scale, last_update |-> now]
                  grown == old.tokens + (now - old.last_update) * Limit(e)
                  refilled == IF grown < Burst(e) * Scale THEN grown ELSE Burst(e) * Scale
                  new == Bucket(buckets', k)
              IN  /\ track'[k].allowed <=> refilled >= Scale
                  /\ track'[k].allowed => new.tokens = refilled - Scale
                  /\ ~track'[k].allowed => new.tokens = refilled
                  /\ new.last_update = now]_vars

\* a refusal after a partial refill, and an admission leaving a fraction of a token
C5_Witness ==
    /\ \E k \in DOMAIN track :
          /\ ~track[k].allowed
          /\ Bucket(buckets, k).tokens > 0
          /\ Bucket(buckets, k).last_update > track[k].born
    /\ \E k \in DOMAIN track :
          /\ track[k].allowed
          /\ Bucket(buckets, k).tokens % Scale # 0

\* C6: a call made exactly 60 / rate_per_minute seconds after a refusal on the
\* same bucket, with no call on it in between, is admitted.
C6_RefillCorrectness ==
    \A k \in DOMAIN track :
        ( /\ track[k].prev # NoCall
          /\ ~track[k].prev.allowed
          /\ track[k].prev.gap * Limit(k[2]) = Scale )
        => track[k].allowed

\* a /generate call 12 seconds after a refusal that had left part of a token
C6_Witness ==
    \E k \in DOMAIN track :
        /\ k[2] = "/generate"
        /\ ~track[k].prev.allowed
        /\ track[k].prev.gap * Limit(k[2]) = Scale
        /\ track[k].allowed
        /\ Bucket(buckets, k).tokens > 0

\* C7: cleanup_old_entries(max_age) removes every bucket idle for longer than
\* max_age and keeps every other bucket as it was.
C7_IdleSweep ==
    [][swept' # NoSweep /\ steps' # steps =>
          /\ Keys(buckets') \subseteq Keys(buckets)
          /\ \A c \in DOMAIN buckets' : DOMAIN buckets'[c] # {}
          /\ \A k \in Keys(buckets) :
                IF now - Bucket(buckets, k).last_update > swept'.max_age * TicksPerSec
                THEN k \notin Keys(buckets')
                ELSE k \in Keys(buckets') /\ Bucket(buckets', k) = Bucket(buckets, k)]_vars

\* a sweep that removed a bucket and kept one idle for exactly max_age
C7_Witness ==
    /\ swept # NoSweep
    /\ swept.removed >= 1
    /\ swept.max_age >= 1
    /\ \E k \in Keys(buckets) :
          now - Bucket(buckets, k).last_update = swept.max_age * TicksPerSec

\* C8: the cache never holds more than max_size entries.
C8_SizeWithinCapacity == Len(cache) <= max_size

\* a full cache that has evicted
C8_Witness ==
    /\ max_size >= 2
    /\ Len(cache) = max_size
    /\ evictions >= 1

\* C9: a set on a key the full cache already holds removes no entry.
C9_SetKeepsOthers ==
    [][( /\ steps' # steps
         /\ ret'.op = "set"
         /\ ret'.key \in CacheKeys(cache)
         /\ Len(cache) = max_size )
       => CacheKeys(cache) \subseteq CacheKeys(cache')]_vars

\* C10: after a set the written entry is the most recently used one.
C10_SetMakesMRU ==
    ret.op = "set" => cache # <<>> /\ cache[Len(cache)].key = ret.key

\* the step is a cache operation op (the clock stands still, a step is counted)
CacheStep(op) == ret'.op = op /\ steps' # steps /\ now' = now

\* C11: a set of a key that is not cached into a full cache removes exactly
\* one entry, the least recently used one (use = set or get hit), and adds
\* the new key.
C11_EvictsLeastRecentlyUsed ==
    [][(CacheStep("set") /\ ret'.key \notin CacheKeys(cache) /\ Len(cache) = max_size)
       => CacheKeys(cache') = (CacheKeys(cache) \ {recency[1]}) \cup {ret'.key}]_vars

\* C12: get returns absent exactly when the key is not cached or its entry is
\* older than the TTL (now - stored_at > ttl); such an entry is removed by
\* that get; an entry with now - stored_at <= ttl is returned with its value.
C12_GetHonoursTTL ==
    [][CacheStep("get") =>
         LET key == ret'.key
             held == key \in CacheKeys(cache)
             x == cache[IndexOf(cache, key)]
             stale == held /\ now - x.timestamp > ttl_seconds * TicksPerSec
         IN  /\ (ret'.value = None) <=> (~held \/ stale)
             /\ stale => key \notin CacheKeys(cache')
             /\ (held /\ ~stale) => ret'.value = x.value]_vars

\* a get has found its entry expired and removed it, others staying cached
C12_Witness ==
    /\ ret.op = "get"
    /\ ret.branch = "expired"
    /\ ret.key \notin CacheKeys(cache)
    /\ cache # <<>>

\* C13: whatever the cache held before, a get that directly follows a set of
\* the same key, at the time of that set, returns the value that was set.
C13_SetThenGet ==
    [][(/\ ret.op = "set"
        /\ CacheStep("get")
        /\ ret'.key = ret.key
        /\ (ret.key \in CacheKeys(cache) =>
               cache[IndexOf(cache, ret.key)].timestamp = now))
       => ret'.value = ret.arg]_vars

\* a get has returned the value just set into a cache that was full and has
\* evicted for it
C13_Witness ==
    /\ ret.op = "get"
    /\ ret.branch = "hit"
    /\ cache[Len(cache)].timestamp = now
    /\ Len(cache) = max_size
    /\ evictions >= 1

\* C14: cleanup_expired removes exactly the entries with now - stored_at > ttl,
\* returns how many it removed, and leaves the other entries (value, stored_at
\* and relative order) as they were.
C14_CleanupExact ==
    [][CacheStep("cleanup_expired") =>
         /\ cache' = SelectSeq(cache, LAMBDA x :
                         ~(now - x.timestamp > ttl_seconds * TicksPerSec))
         /\ ret'.value = Len(cache) - Len(cache')]_vars

\* a cleanup has removed an expired entry and kept one that had not expired
C14_Witness ==
    /\ ret.op = "cleanup_expired"
    /\ ret.value >= 1
    /\ cache # <<>>

\* the dict a sequence of items stands for
AsDict(items) ==
    [n \in {items[i][1] : i \in DOMAIN items} |->
       (CHOOSE p \in {items[i] : i \in DOMAIN items} : p[1] = n)[2]]

\* C15: the fingerprint is a function of its arguments, is the same for
\* tech_stack dicts that differ only in the order of their keys, and differs
\* as soon as the image, the description or a tech_stack value differs.
C15_FingerprintCanonical ==
    fp.called =>
      \A r \in KeyRequests :
        (GenerateKey(r) = fp.key) <=>
          /\ r.image_data = fp.req.image_data
          /\ r.description = fp.req.description
          /\ AsDict(r.tech_stack) = AsDict(fp.req.tech_stack)

\* a fingerprint was taken of a request whose tech_stack keys are not in
\* sorted order and whose description holds the separator
C15_Witness ==
    /\ fp.called
    /\ SortKeys(fp.req.tech_stack) # fp.req.tech_stack
    /\ \E i \in DOMAIN fp.req.description : fp.req.description[i] = ":"

\* C16: concurrent check_rate_limit calls on one bucket behave as in some
\* serial order, so no two of them are admitted against one token and no
\* token update is lost: with no sweep run, the calls admitted on a bucket
\* never exceed its burst plus what has refilled since the limiter was new.
C16_NoDoubleAdmission ==
    threads[Sweeper].pc = "idle" =>
      \A k \in DOMAIN track :
        track[k].admitted * Scale <= Burst(k[2]) * Scale + now * Limit(k[2])

\* C17: a sweep that runs while requests are admitted makes no
\* check_rate_limit call raise, and removes no bucket (nor its client) that
\* was created or updated within max_age of the sweep's start.
C17_SweepSafe ==
    [][/\ \A t \in DOMAIN threads' : threads'[t].pc # "raised"
       /\ \A k \in Keys(buckets) \ Keys(buckets') :
            threads[Sweeper].current_time - Bucket(buckets, k).last_update
              > threads[Sweeper].max_age * TicksPerSec]_vars

\* C18: whatever the interleaving of concurrent sets and gets, the cache
\* never holds more entries than its capacity and no operation raises.
C18_GuardedCache ==
    /\ Len(cache) <= max_size
    /\ \A t \in Workers : threads[t].pc # "raised"

\* C19: a snapshot taken while record_request calls run on other threads is
\* one that some interleaving of whole record_request calls could show: its
\* total errors do not exceed its total requests, its totals are the sums of
\* the per-endpoint counters it reports, and its rates are those of the
\* totals it reports.
C19_SnapshotConsistent ==
    report.op = "get_metrics" =>
      /\ report.errors.total <= report.requests.total
      /\ report.requests.total = Sum(report.requests.by_endpoint)
      /\ report.errors.total = Sum(report.errors.by_endpoint)
      /\ report.system.uptime > 0 =>
            /\ report.requests.rate_per_second
                 = Round2(Ratio(report.requests.total * TicksPerSec, report.system.uptime))
            /\ report.errors.rate_per_second
                 = Round2(Ratio(report.errors.total * TicksPerSec, report.system.uptime))
      /\ report.requests.total > 0 =>
            report.errors.error_rate_percent
              = Round2(Ratio(report.errors.total * 100, report.requests.total))

\* the step is a get_health_status call
HealthStep ==
    /\ report'.op = "get_health_status"
    /\ steps' # steps
    /\ now' = now
    /\ UNCHANGED <<request_count, openai_calls, cache_hits, cache_misses>>

\* C20: get_health_status reports healthy = false whenever more than 10% of
\* all requests were errors or, with upstream calls made, fewer than 90% of
\* them succeeded; with an error rate above 5% and at most 10% and upstream
\* fine it reports healthy = true and warns of the error rate; a route whose
\* mean latency is above 5 seconds gets a warning and does not make the
\* service unhealthy.
C20_HealthPolicy ==
    [][HealthStep =>
         LET requests == Sum(request_count)
             errors == Sum(error_count)
             over10 == errors * 100 > 10 * requests
             over5 == errors * 100 > 5 * requests
             upstream_bad == /\ openai_calls > 0
                             /\ (openai_calls - openai_errors) * 100 < 90 * openai_calls
             slow == {e \in DOMAIN response_times :
                        SumSeq(response_times[e]) > 5000 * Len(response_times[e])}
         IN  /\ (over10 \/ upstream_bad) => ~report'.healthy
             /\ (over5 /\ ~over10 /\ ~upstream_bad) =>
                   /\ report'.healthy
                   /\ Warning("Elevated error rate", None) \in report'.warnings
             /\ \A e \in slow : Warning("Slow response time", e) \in report'.warnings
             /\ (slow # {} /\ ~over10 /\ ~upstream_bad) => report'.healthy]_vars

\* the last n elements of q (all of q when it has fewer)
LastN(q, n) == IF Len(q) <= n THEN q ELSE SubSeq(q, Len(q) - n + 1, Len(q))

\* the requests of q that count as errors
ErrorsIn(q) == Cardinality({i \in 1..Len(q) : q[i].status_code >= 400})

\* C21: after any sequence of record_request calls, request_count of a route
\* is the number of calls for it, error_count the number of those with
\* status_code >= 400, and the route's window holds the durations of the most
\* recent min(n, window_size) calls in arrival order.
C21_RecordRequest ==
    /\ DOMAIN request_count = DOMAIN arrived
    /\ DOMAIN response_times = DOMAIN arrived
    /\ \A e \in DOMAIN arrived :
         LET recent == LastN(arrived[e], window_size) IN
         /\ request_count[e] = Len(arrived[e])
         /\ Count(error_count, e) = ErrorsIn(arrived[e])
         /\ response_times[e] = [i \in 1..Len(recent) |-> recent[i].duration]

\* a route has seen more requests than its window holds, of different
\* durations, some of them errors (one with status 400) and some not
C21_Witness ==
    \E e \in DOMAIN arrived :
        /\ Len(arrived[e]) > window_size
        /\ arrived[e][1].duration # arrived[e][Len(arrived[e])].duration
        /\ \E i \in 1..Len(arrived[e]) : arrived[e][i].status_code = 400
        /\ \E i \in 1..Len(arrived[e]) : arrived[e][i].status_code < 400

\* the step is a get_metrics call
SnapshotStep ==
    /\ report'.op = "get_metrics"
    /\ steps' # steps
    /\ UNCHANGED <<response_times, request_count>>

\* v is the element at (zero-based) index idx of window sorted ascending
AtSortedIndex(window, idx, v) ==
    /\ \E i \in 1..Len(window) : window[i] = v
    /\ Cardinality({i \in 1..Len(window) : window[i] < v}) <= idx
    /\ Cardinality({i \in 1..Len(window) : window[i] <= v}) > idx

\* C22: in a snapshot the 95th-percentile latency of a route with a window
\* of n >= 1 durations is the element at index floor(0.95 * n) of the sorted
\* window (the last element if that index were out of bounds), reported in
\* hundredths of a millisecond; for 100, 200, 300, 400, 500 ms it is 500 ms.
C22_Percentile ==
    [][SnapshotStep =>
         /\ DOMAIN report'.performance.p95_response_time_ms =
                {e \in DOMAIN response_times : response_times[e] # <<>>}
         /\ \A e \in DOMAIN report'.performance.p95_response_time_ms :
              LET window == response_times[e]
                  n == Len(window)
                  idx == IF (95 * n) \div 100 < n THEN (95 * n) \div 100 ELSE n - 1
                  p95 == report'.performance.p95_response_time_ms[e]
              IN  /\ p95 % 100 = 0
                  /\ AtSortedIndex(window, idx, p95 \div 100)
                  /\ (window = <<100, 200, 300, 400, 500>> => p95 = 500 * 100)]_vars

\* a snapshot of more than twenty durations whose 95th percentile is above
\* the fastest and below the slowest of them
C22_Witness ==
    /\ report.op = "get_metrics"
    /\ \E e \in DOMAIN response_times :
         /\ e \in DOMAIN report.performance.p95_response_time_ms
         /\ Len(response_times[e]) > 20
         /\ \E i \in 1..Len(response_times[e]) :
              100 * response_times[e][i] > report.performance.p95_response_time_ms[e]
         /\ report.performance.p95_response_time_ms[e] > 100 * 100

\* no counter of d has gone down in d2
NotBelow(d, d2) == \A e \in DOMAIN d : e \in DOMAIN d2 /\ d2[e] >= d[e]

\* C23: no operation of the collector (record_request, record_openai_call
\* with non-negative tokens and cost, record_cache, get_metrics,
\* get_health_status) lowers a counter: the per-route request and error
\* counts, the upstream calls, errors, tokens and cost, the cache hits and
\* misses.
C23_CountersMonotone ==
    [][/\ NotBelow(request_count, request_count')
       /\ NotBelow(error_count, error_count')
       /\ openai_calls' >= openai_calls
       /\ openai_errors' >= openai_errors
       /\ openai_tokens_used' >= openai_tokens_used
       /\ openai_cost' >= openai_cost
       /\ cache_hits' >= cache_hits
       /\ cache_misses' >= cache_misses]_vars

\* requests, errors and upstream calls have been counted and a snapshot or a
\* health report was taken after them
C23_Witness ==
    /\ report.op \in {"get_metrics", "get_health_status"}
    /\ Sum(request_count) > 0
    /\ Sum(error_count) > 0
    /\ openai_calls > 0
    /\ (LET m == IF report.op = "get_metrics" THEN report ELSE report.metrics
        IN  m.requests.total > 0 /\ m.errors.total > 0 /\ m.openai.total_calls > 0)

\* C30: after any sequence of whole record calls, no route has more errors
\* than requests and there are no more upstream errors than upstream calls,
\* and every snapshot's error rate and upstream success rate are between 0%
\* and 100% (the rates are in hundredths of a percent).
C30_ErrorsWithinRequests ==
    /\ \A e \in DOMAIN error_count : error_count[e] <= Count(request_count, e)
    /\ openai_errors <= openai_calls
    /\ report.op \in {"get_metrics", "get_health_status"} =>
         LET m == IF report.op = "get_metrics" THEN report ELSE report.metrics IN
         /\ m.errors.error_rate_percent \in 0..(100 * 100)
         /\ m.openai.success_rate_percent \in 0..(100 * 100)

\* a snapshot taken when every request so far was an error and every
\* upstream call so far failed: the rates are at their ends, 100% and 0%
C30_Witness ==
    /\ report.op = "get_metrics"
    /\ report.requests.total > 0
    /\ report.errors.total = report.requests.total
    /\ report.errors.error_rate_percent = 100 * 100
    /\ report.openai.total_calls > 0
    /\ report.openai.errors = report.openai.total_calls
    /\ report.openai.success_rate_percent = 0

\* C28: a call that comes exactly retry_after seconds after a refused call
\* on the same bucket, with no call on the bucket and no sweep of it in
\* between, is admitted.
C28_RetrySufficient ==
    \A k \in DOMAIN track :
        (/\ ~track[k].prev.allowed
         /\ track[k].prev.gap = track[k].prev.retry * TicksPerSec) => track[k].allowed

\* a refused call that left less than one token, and the next call on the
\* bucket retry_after seconds later, admitted
C28_Witness ==
    \E k \in DOMAIN track :
        /\ ~track[k].prev.allowed
        /\ track[k].prev.retry > 1
        /\ track[k].prev.gap = track[k].prev.retry * TicksPerSec
        /\ track[k].allowed

\* C27: for every bucket that is never swept, the calls admitted in any
\* interval [t1, t2] number at most burst + (t2 - t1) * rate_per_minute / 60.
\* It is enough to take t1 and t2 at admitted calls; both sides are in units
\* of 1/Scale token, and a tick refills rate_per_minute of them.
C27_AdmissionBound ==
    \A k \in DOMAIN admissions :
        \A i \in 1..Len(admissions[k]) : \A j \in i..Len(admissions[k]) :
            (j - i + 1) * Scale
                <= Burst(k[2]) * Scale + (admissions[k][j] - admissions[k][i]) * Limit(k[2])

\* an interval of positive length that ends some time after a full burst and
\* has exactly as many admitted calls as the bound allows
C27_Witness ==
    \E k \in DOMAIN admissions :
        \E i \in 1..Len(admissions[k]) : \E j \in i..Len(admissions[k]) :
            /\ admissions[k][j] > admissions[k][i]
            /\ j - i + 1 > Burst(k[2])
            /\ (j - i + 1) * Scale
                 = Burst(k[2]) * Scale + (admissions[k][j] - admissions[k][i]) * Limit(k[2])

\* C29: with the sweep's max age of 3600 seconds and the configured limits,
\* every call gets the same answer from a limiter that is swept at arbitrary
\* points as from one given the same calls and never swept.
C29_SweepTransparent ==
    twin.called => twin.allowed = twin.twin_allowed

\* a call on a bucket that a sweep took away after it had been drained to no
\* token at all: admitted on both limiters, which hold the same bucket again
C29_Witness ==
    /\ twin.called
    /\ twin.fresh
    /\ twin.held = 0
    /\ twin.allowed
    /\ twin.twin_allowed
    /\ buckets = twin.buckets
    /\ \E k \in Keys(buckets) : Bucket(buckets, k).last_update = now
                                  /\ Bucket(buckets, k).tokens = (Burst(k[2]) - 1) * Scale

\* the request whose events are tr did ev with arg
Did(tr, ev, arg) == \E i \in DOMAIN tr : tr[i] = Event(ev, arg)

\* the places of tr where the request did ev
Places(tr, ev) == {i \in DOMAIN tr : tr[i].ev = ev}

\* the step is a request to path
RequestStep(path) ==
    /\ steps' # steps
    /\ trace' # <<>>
    /\ trace'[1] = Event("request", path)

C25_AdmitFirst ==
    /\ \A i \in Places(trace, "get") \cup Places(trace, "call") \cup Places(trace, "invoke") :
         \E j \in 1..(i - 1) : trace[j] = Event("admit", "allowed")
    /\ Did(trace, "admit", "refused") =>
         /\ Did(trace, "respond", "429")
         /\ Places(trace, "retry_after") # {}

\* C26: every call sent to the upstream service is followed, before the next
\* one, by one record_openai_call whose success flag tells how that call
\* ended, and a request served from the cache records no upstream call.
C26_RecordPerInvocation ==
    /\ \A i \in Places(trace, "invoke") :
         \E j \in (i + 1)..Len(trace) :
            /\ trace[j] = Event("record_openai_call", IF trace[i].arg = "ok" THEN "ok" ELSE "failed")
            /\ \A m \in (i + 1)..(j - 1) : trace[m].ev # "invoke"
    /\ Did(trace, "get", "hit") => Places(trace, "record_openai_call") = {}
====
